---- MODULE Spec2Model ----
(***************************************************************************)
(* FAS monitor backend (src/server.py): the sync endpoint and its two      *)
(* durable collections, the streak / stats / team report computations and  *)
(* the helpers they use.                                                   *)
(*                                                                         *)
(* Text that the code parses, splits or concatenates (round identifiers,   *)
(* dates, times, team labels, storage keys) is a sequence of one-character *)
(* strings, so that int(), str.split(), str.strip(), str.upper() and the   *)
(* f-string key are computed the way Python computes them.  Outcome tags   *)
(* ("NG", "G") are only compared for equality and stay atomic strings.     *)
(***************************************************************************)
EXTENDS Integers, Sequences, FiniteSets, TLC

VARIABLES
    telegram_state,     \* the process-wide dict of server.py:43-50
    fas_telegram_sync,  \* collection db.fas_telegram_sync: the documents, by _id
    fas_historical,     \* collection db.fas_historical: the set of documents
    now,                \* the clock read by telegram_sync (a logical counter)
    response,           \* the last request handled and what it returned
    outbound,           \* the calls that request made to the messaging service
    tasks,              \* the scheduled message deletions not yet run
    records,            \* the record list handed to a report computation
    args,               \* the other arguments of that computation
    result              \* what the computation returned

vars == <<telegram_state, fas_telegram_sync, fas_historical, now, response,
          outbound, tasks, records, args, result>>

sysvars == <<telegram_state, fas_telegram_sync, fas_historical, now, response,
             outbound, tasks>>
funvars == <<records, args, result>>

\* Python's None, distinct from every text value (texts hold one-character strings).
None == <<"None">>

Max(a, b) == IF a >= b THEN a ELSE b

\* All sequences over S of length 0..n.
SeqUpTo(S, n) == UNION {[1..k -> S] : k \in 0..n}

(***************************************************************************)
(* Python text operations                                                  *)
(***************************************************************************)
Digits == {"0", "1", "2", "3", "4", "5", "6", "7", "8", "9"}

DigitVal(c) ==
    CASE c = "0" -> 0 [] c = "1" -> 1 [] c = "2" -> 2 [] c = "3" -> 3
      [] c = "4" -> 4 [] c = "5" -> 5 [] c = "6" -> 6 [] c = "7" -> 7
      [] c = "8" -> 8 [] c = "9" -> 9

DigitChar(d) ==
    CASE d = 0 -> "0" [] d = 1 -> "1" [] d = 2 -> "2" [] d = 3 -> "3"
      [] d = 4 -> "4" [] d = 5 -> "5" [] d = 6 -> "6" [] d = 7 -> "7"
      [] d = 8 -> "8" [] d = 9 -> "9"

\* The characters str.strip() and int() take for blanks.
Whitespace == {" ", "\n", "\t"}

\* str.strip(): leading and trailing blanks removed.
RECURSIVE LStrip(_)
LStrip(s) == IF s # <<>> /\ Head(s) \in Whitespace THEN LStrip(Tail(s)) ELSE s

RECURSIVE RStrip(_)
RStrip(s) ==
    IF s # <<>> /\ s[Len(s)] \in Whitespace
    THEN RStrip(SubSeq(s, 1, Len(s) - 1))
    ELSE s

Strip(s) == RStrip(LStrip(s))

UpperChar(c) ==
    CASE c = "a" -> "A" [] c = "b" -> "B" [] c = "c" -> "C" [] c = "d" -> "D"
      [] c = "e" -> "E" [] c = "f" -> "F" [] c = "g" -> "G" [] c = "h" -> "H"
      [] c = "i" -> "I" [] c = "j" -> "J" [] c = "k" -> "K" [] c = "l" -> "L"
      [] c = "m" -> "M" [] c = "n" -> "N" [] c = "o" -> "O" [] c = "p" -> "P"
      [] c = "q" -> "Q" [] c = "r" -> "R" [] c = "s" -> "S" [] c = "t" -> "T"
      [] c = "u" -> "U" [] c = "v" -> "V" [] c = "w" -> "W" [] c = "x" -> "X"
      [] c = "y" -> "Y" [] c = "z" -> "Z"
      [] OTHER -> c

\* str.upper(), on ASCII letters.
Upper(s) == [k \in 1..Len(s) |-> UpperChar(s[k])]

\* str.split(sep) for a one-character separator: the parts between separators,
\* empty parts kept, always at least one part.
RECURSIVE SplitFrom(_, _, _)
SplitFrom(s, sep, cur) ==
    IF s = <<>> THEN <<cur>>
    ELSE IF Head(s) = sep THEN <<cur>> \o SplitFrom(Tail(s), sep, <<>>)
    ELSE SplitFrom(Tail(s), sep, Append(cur, Head(s)))

Split(s, sep) == SplitFrom(s, sep, <<>>)

\* The digits of a text that int() accepts: blanks stripped, one optional sign.
Unsigned(s) ==
    LET t == Strip(s)
    IN  IF t # <<>> /\ Head(t) \in {"-", "+"} THEN Tail(t) ELSE t

\* int(s) succeeds: no ValueError.  None is not a text: int(None) is a TypeError.
ParsesAsInt(s) ==
    /\ s # None
    /\ Unsigned(s) # <<>>
    /\ \A k \in 1..Len(Unsigned(s)) : Unsigned(s)[k] \in Digits

RECURSIVE DecimalValue(_)
DecimalValue(ds) ==
    IF ds = <<>> THEN 0
    ELSE 10 * DecimalValue(SubSeq(ds, 1, Len(ds) - 1)) + DigitVal(ds[Len(ds)])

\* int(s) for a text that parses.
IntOf(s) ==
    LET t == Strip(s)
    IN  IF Head(t) = "-" THEN 0 - DecimalValue(Unsigned(s))
        ELSE DecimalValue(Unsigned(s))

(***************************************************************************)
(* is_consecutive, the nested helper of the two per-position streak        *)
(* reports.                                                                *)
(***************************************************************************)
\* A slip that forgets the wraparound test for round 22.
is_consecutive_nowrap(g1, g2) ==
    /\ ParsesAsInt(g1)
    /\ ParsesAsInt(g2)
    /\ IntOf(g2) = IntOf(g1) + 1

is_consecutive(g1, g2) ==
    IF ParsesAsInt(g1) /\ ParsesAsInt(g2)
    THEN LET n1 == IntOf(g1)
             n2 == IntOf(g2)
         IN  IF n1 = 22 THEN n2 = 1 ELSE n2 = n1 + 1
    ELSE FALSE

is_consecutive_daily(g1, g2) ==
    IF ParsesAsInt(g1) /\ ParsesAsInt(g2)
    THEN LET n1 == IntOf(g1)
             n2 == IntOf(g2)
         IN  IF n1 = 22 THEN n2 = 1 ELSE n2 = n1 + 1
    ELSE FALSE

(***************************************************************************)
(* Process start: the module-level state, and both collections empty.      *)
(***************************************************************************)
\* A dict is a function from its keys; the empty dict has no key.
EmptyDict == [k \in {} |-> 0]

DictGet(d, k, default) == IF k \in DOMAIN d THEN d[k] ELSE default

DictPut(d, k, v) == [x \in DOMAIN d \cup {k} |-> IF x = k THEN v ELSE d[x]]

NoResponse == [op |-> "none"]

InitialState ==
    [bot_token |-> None, chat_id |-> None, history |-> <<>>, threshold |-> 6,
     last_sync |-> None, rendered_templates |-> EmptyDict]

SysInit ==
    /\ telegram_state = InitialState
    /\ fas_telegram_sync = EmptyDict
    /\ fas_historical = {}
    /\ now = 0
    /\ response = NoResponse
    /\ outbound = <<>>
    /\ tasks = {}

NoResult == [op |-> "none"]

(***************************************************************************)
(* Adjacency of round identifiers: the inputs are all texts of 1..MaxRound *)
(* characters over RoundChars.                                             *)
(***************************************************************************)
MaxRoundLen == 2

RoundChars == {"0", "1", "2", "3", "-", "?"}

RoundTexts == SeqUpTo(RoundChars, MaxRoundLen) \ {<<>>}

InitConsec ==
    /\ SysInit
    /\ records = <<>>
    /\ args \in [g1 : RoundTexts, g2 : RoundTexts]
    /\ result = NoResult

CheckConsecutive ==
    /\ result = NoResult
    /\ result' = [op |-> "is_consecutive",
                  total |-> is_consecutive(args.g1, args.g2),
                  daily |-> is_consecutive_daily(args.g1, args.g2)]
    /\ UNCHANGED <<sysvars, records, args>>

NextConsec == CheckConsecutive

SpecConsec == InitConsec /\ [][NextConsec]_vars

\* Adjacency as the data model states it: the next round, round 1 after round 22.
Adjacent(g1, g2) ==
    /\ ParsesAsInt(g1)
    /\ ParsesAsInt(g2)
    /\ \/ IntOf(g1) = 22 /\ IntOf(g2) = 1
       \/ IntOf(g1) # 22 /\ IntOf(g2) = IntOf(g1) + 1

\* C5: is_consecutive(g1, g2), in the total and in the daily report, is true
\* exactly when both round identifiers parse as integers and either g1 = 22 and
\* g2 = 1, or g1 # 22 and g2 = g1 + 1.  So 22 then 1 is adjacent, 22 then 2 or 23
\* is not, a repeated round is not, and a non-numeric identifier on either side
\* is never adjacent.
C5_IsConsecutive ==
    result.op = "is_consecutive" =>
        /\ result.total = Adjacent(args.g1, args.g2)
        /\ result.daily = Adjacent(args.g1, args.g2)
        /\ (args.g1 = <<"2", "2">> /\ args.g2 = <<"1">>) => result.total
        /\ (args.g1 = <<"2", "2">> /\ args.g2 \in {<<"2">>, <<"2", "3">>})
               => ~result.total
        /\ args.g1 = args.g2 => ~result.total
        /\ (\E k \in 1..Len(args.g1) : args.g1[k] = "?") => ~result.total
        /\ (\E k \in 1..Len(args.g2) : args.g2[k] = "?") => ~result.total

C5_Witness ==
    /\ result.op = "is_consecutive"
    /\ args.g1 = <<"2", "2">>
    /\ args.g2 = <<"1">>
    /\ result.total
    /\ result.daily

(***************************************************************************)
(* The per-position streak scan of generate_streak_message_from_db and of  *)
(* generate_streak_daily_message_from_db.  A record is a stored document;  *)
(* matches[pos] is written matches[pos + 1], sequences being 1-based.      *)
(***************************************************************************)
MIN_STREAK == 5

\* streak_counts[length] = streak_counts.get(length, 0) + 1
CountRun(streak_counts, length) ==
    DictPut(streak_counts, length, DictGet(streak_counts, length, 0) + 1)

ScanStart ==
    [streak_counts |-> EmptyDict, current_streak |-> 0, max_streak |-> 0,
     current_streak_start |-> None, ongoing_streak |-> FALSE,
     last_giornata |-> None]

\* What both the discontinuity branch and the non-NG branch do to an active run.
CloseRun(st) ==
    [st EXCEPT
        !.streak_counts = IF st.current_streak >= MIN_STREAK
                          THEN CountRun(st.streak_counts, st.current_streak)
                          ELSE st.streak_counts,
        !.max_streak = Max(st.max_streak, st.current_streak),
        !.current_streak = 0,
        !.current_streak_start = None]

\* A slip that lets an active run survive a jump in the round numbers.
CloseOnGap_never(st, giornata) == st

\* server.py:594-602: an active run is closed when the round is not the next one.
CloseOnGap(st, giornata) ==
    IF st.last_giornata # None /\ st.current_streak > 0
          /\ ~is_consecutive(st.last_giornata, giornata)
    THEN CloseRun(st)
    ELSE st

\* One iteration of the loop over all_records, for record number i (0-based) of n.
StreakStep(st, record, pos, i, n) ==
    IF pos < Len(record.matches)
    THEN LET res == record.matches[pos + 1].result
             giornata == record.giornata
             s1 == CloseOnGap(st, giornata)
             s2 == IF res = "NG"
                   THEN LET s3 == [s1 EXCEPT
                                     !.current_streak_start =
                                         IF s1.current_streak = 0 THEN giornata
                                         ELSE s1.current_streak_start,
                                     !.current_streak = s1.current_streak + 1]
                        IN  IF i = n - 1
                            THEN [s3 EXCEPT
                                     !.ongoing_streak = TRUE,
                                     !.max_streak = Max(s3.max_streak,
                                                        s3.current_streak)]
                            ELSE s3
                   ELSE CloseRun(s1)
         IN  [s2 EXCEPT !.last_giornata = giornata]
    ELSE st

\* A slip that leaves the run still open after the last record out of the
\* histogram.
FlushOngoing_never(st) == st

\* The run still open after the last record enters the histogram when long enough.
FlushOngoing(st) ==
    IF st.current_streak >= MIN_STREAK /\ st.ongoing_streak
    THEN [st EXCEPT !.streak_counts = CountRun(st.streak_counts, st.current_streak)]
    ELSE st

RECURSIVE StreakLoop(_, _, _, _)
StreakLoop(st, recs, pos, i) ==
    IF i >= Len(recs) THEN st
    ELSE StreakLoop(StreakStep(st, recs[i + 1], pos, i, Len(recs)), recs, pos, i + 1)

\* The scan of one position by the total streak report.
StreakScan(recs, pos) == FlushOngoing(StreakLoop(ScanStart, recs, pos, 0))

\* The same loop in the daily report (a textual copy of the one above).
DailyCloseOnGap(st, giornata) ==
    IF st.last_giornata # None /\ st.current_streak > 0
          /\ ~is_consecutive_daily(st.last_giornata, giornata)
    THEN CloseRun(st)
    ELSE st

DailyStreakStep(st, record, pos, i, n) ==
    IF pos < Len(record.matches)
    THEN LET res == record.matches[pos + 1].result
             giornata == record.giornata
             s1 == DailyCloseOnGap(st, giornata)
             s2 == IF res = "NG"
                   THEN LET s3 == [s1 EXCEPT
                                     !.current_streak_start =
                                         IF s1.current_streak = 0 THEN giornata
                                         ELSE s1.current_streak_start,
                                     !.current_streak = s1.current_streak + 1]
                        IN  IF i = n - 1
                            THEN [s3 EXCEPT
                                     !.ongoing_streak = TRUE,
                                     !.max_streak = Max(s3.max_streak,
                                                        s3.current_streak)]
                            ELSE s3
                   ELSE CloseRun(s1)
         IN  [s2 EXCEPT !.last_giornata = giornata]
    ELSE st

RECURSIVE DailyStreakLoop(_, _, _, _)
DailyStreakLoop(st, recs, pos, i) ==
    IF i >= Len(recs) THEN st
    ELSE DailyStreakLoop(DailyStreakStep(st, recs[i + 1], pos, i, Len(recs)),
                         recs, pos, i + 1)

DailyStreakScan(recs, pos) == FlushOngoing(DailyStreakLoop(ScanStart, recs, pos, 0))

(***************************************************************************)
(* The streak scans on every ordered record list of up to MaxStreakLen     *)
(* records: each record has one of StreakRounds as round and either no     *)
(* match entry at all or one entry, NG or G, so that position 0 is present *)
(* in some records and absent from others, and positions 1..5 are absent.  *)
(***************************************************************************)
MaxStreakLen == 4

Positions == 0..5

StreakRounds == {<<"1">>, <<"2">>, <<"2", "2">>, <<"?">>}

NoTeams == <<>>

StreakMatchLists ==
    {<<>>, <<[result |-> "NG", teams |-> NoTeams]>>,
           <<[result |-> "G", teams |-> NoTeams]>>}

StreakRecords == [giornata : StreakRounds, matches : StreakMatchLists]

InitStreak ==
    /\ SysInit
    /\ records \in SeqUpTo(StreakRecords, MaxStreakLen)
    /\ args = [op |-> "none"]
    /\ result = NoResult

StreakTotal(pos) ==
    /\ result = NoResult
    /\ args' = [op |-> "streak", pos |-> pos]
    /\ result' = [op |-> "streak", scan |-> StreakScan(records, pos)]
    /\ UNCHANGED <<sysvars, records>>

StreakDaily(pos) ==
    /\ result = NoResult
    /\ args' = [op |-> "streak_daily", pos |-> pos]
    /\ result' = [op |-> "streak_daily", scan |-> DailyStreakScan(records, pos)]
    /\ UNCHANGED <<sysvars, records>>

NextStreak ==
    \/ \E pos \in Positions : StreakTotal(pos)
    \/ \E pos \in Positions : StreakDaily(pos)

SpecStreak == InitStreak /\ [][NextStreak]_vars

IsStreakResult == result.op \in {"streak", "streak_daily"}

\* The records that carry position pos, in order: the observations of the scan.
RECURSIVE Observed(_, _)
Observed(recs, pos) ==
    IF recs = <<>> THEN <<>>
    ELSE (IF pos < Len(Head(recs).matches)
          THEN <<[result |-> Head(recs).matches[pos + 1].result,
                  giornata |-> Head(recs).giornata]>>
          ELSE <<>>) \o Observed(Tail(recs), pos)

\* obs[a..b] is a block of NG observations whose successive rounds are adjacent.
IsBlock(obs, a, b) ==
    /\ \A k \in a..b : obs[k].result = "NG"
    /\ \A k \in a..(b - 1) : Adjacent(obs[k].giornata, obs[k + 1].giornata)

LongestBlock(obs) ==
    LET lens == {b - a + 1 : <<a, b>> \in
                    {w \in (1..Len(obs)) \X (1..Len(obs)) :
                        w[1] <= w[2] /\ IsBlock(obs, w[1], w[2])}}
    IN  IF lens = {} THEN 0 ELSE CHOOSE m \in lens : \A x \in lens : x <= m

EveryRecordHas(recs, pos) == \A k \in 1..Len(recs) : pos < Len(recs[k].matches)

\* C1: for every ordered record list, including records that lack the position,
\* and every position 0..5, the per-position streak scan of the total and of the
\* daily streak report ends with current_streak <= max_streak.
C1_CurrentLeMax ==
    IsStreakResult => result.scan.current_streak <= result.scan.max_streak

\* C4: when every record carries the position, max_streak of the per-position
\* scan is the length of the longest block of consecutive NG records whose
\* successive round numbers are adjacent under the cyclic rule; a non-adjacent
\* jump closes the run although no non-NG outcome was seen.
C4_MaxIsLongestBlock ==
    (IsStreakResult /\ EveryRecordHas(records, args.pos)) =>
        result.scan.max_streak = LongestBlock(Observed(records, args.pos))

\* NG at rounds 1, 2 and then, after a jump, at 22 and 1: two runs of 2, not one of 4.
C4_Witness ==
    /\ result.op = "streak"
    /\ args.pos = 0
    /\ Len(records) = 4
    /\ \A k \in 1..4 : records[k].matches # <<>>
                          /\ records[k].matches[1].result = "NG"
    /\ <<records[1].giornata, records[2].giornata,
         records[3].giornata, records[4].giornata>>
           = <<(<<"1">>), (<<"2">>), (<<"2", "2">>), (<<"1">>)>>
    /\ result.scan.max_streak = 2

(***************************************************************************)
(* Team aggregation: build_team_history_from_records and the per-team      *)
(* computations that consume it.                                           *)
(***************************************************************************)
TEAMS ==
    << <<"S", "A", "M">>, <<"R", "O", "M">>, <<"U", "D", "I">>, <<"N", "A", "P">>,
       <<"I", "N", "T">>, <<"G", "E", "N">>, <<"V", "E", "R">>, <<"A", "T", "A">>,
       <<"J", "U", "V">>, <<"L", "A", "Z">>, <<"M", "I", "L">>, <<"F", "I", "O">> >>

TeamSet == {TEAMS[k] : k \in 1..Len(TEAMS)}

\* A slip that compares the label's sides with the roster as they were typed.
TeamSide_raw(part) == part

\* parts[k].strip().upper()
TeamSide(part) == Upper(Strip(part))

\* The body of the loop over a record's matches, for one match entry.
AddMatch(team_results, record, match) ==
    LET teams_str == match.teams
        parts == Split(teams_str, "-")
    IN  IF teams_str = <<>> THEN team_results
        ELSE IF Len(parts) = 2
        THEN LET home_team == TeamSide(parts[1])
                 away_team == TeamSide(parts[2])
                 res == match.result
                 t1 == IF home_team \in TeamSet
                       THEN [team_results EXCEPT ![home_team] =
                                Append(@, [result |-> res,
                                           giornata |-> record.giornata,
                                           ora |-> record.ora,
                                           opponent |-> away_team])]
                       ELSE team_results
             IN  IF away_team \in TeamSet
                 THEN [t1 EXCEPT ![away_team] =
                          Append(@, [result |-> res,
                                     giornata |-> record.giornata,
                                     ora |-> record.ora,
                                     opponent |-> home_team])]
                 ELSE t1
        ELSE team_results

RECURSIVE AddMatches(_, _, _)
AddMatches(team_results, record, k) ==
    IF k > Len(record.matches) THEN team_results
    ELSE AddMatches(AddMatch(team_results, record, record.matches[k]), record, k + 1)

RECURSIVE AddRecords(_, _, _)
AddRecords(team_results, recs, i) ==
    IF i > Len(recs) THEN team_results
    ELSE AddRecords(AddMatches(team_results, recs[i], 1), recs, i + 1)

build_team_history_from_records(recs) ==
    AddRecords([team \in TeamSet |-> <<>>], recs, 1)

\* The loop of generate_streak_message_by_team over one team's results.
TeamStreakStep(st, r, i, n) ==
    IF r.result = "NG"
    THEN LET s1 == [st EXCEPT !.current_streak = st.current_streak + 1]
         IN  IF i = n - 1
             THEN [s1 EXCEPT !.ongoing_streak = TRUE,
                             !.max_streak = Max(s1.max_streak, s1.current_streak)]
             ELSE s1
    ELSE [st EXCEPT
            !.streak_counts = IF st.current_streak >= MIN_STREAK
                              THEN CountRun(st.streak_counts, st.current_streak)
                              ELSE st.streak_counts,
            !.max_streak = Max(st.max_streak, st.current_streak),
            !.current_streak = 0]

RECURSIVE TeamStreakLoop(_, _, _)
TeamStreakLoop(st, results, i) ==
    IF i >= Len(results) THEN st
    ELSE TeamStreakLoop(TeamStreakStep(st, results[i + 1], i, Len(results)),
                        results, i + 1)

TeamScanStart ==
    [streak_counts |-> EmptyDict, current_streak |-> 0, max_streak |-> 0,
     ongoing_streak |-> FALSE]

TeamStreakScan(results) ==
    LET st == TeamStreakLoop(TeamScanStart, results, 0)
    IN  IF st.current_streak >= MIN_STREAK /\ st.ongoing_streak
        THEN [st EXCEPT !.streak_counts = CountRun(st.streak_counts, st.current_streak)]
        ELSE st

\* The per-team part of generate_streak_message_by_team: teams without results
\* are skipped.
generate_streak_message_by_team(recs) ==
    LET team_history == build_team_history_from_records(recs)
    IN  [team \in {t \in TeamSet : team_history[t] # <<>>} |->
            TeamStreakScan(team_history[team])]

(***************************************************************************)
(* Team aggregation on every ordered list of up to MaxTeamRecs records.    *)
(* A record is round 1 at 10:00 or round 3 at 10:05 and carries one of the *)
(* match lists below: plain, lower-case and padded labels, a side outside  *)
(* the roster, labels of one and of three parts, an empty label, and the   *)
(* same two teams met twice in one record.                                 *)
(***************************************************************************)
MaxTeamRecs == 2

T1000 == <<"1", "0", ":", "0", "0">>
T1005 == <<"1", "0", ":", "0", "5">>

RomJuv == <<"R", "O", "M", "-", "J", "U", "V">>
JuvRom == <<"J", "U", "V", "-", "R", "O", "M">>
JuvRomTyped == <<" ", "j", "u", "v", " ", "-", " ", "r", "o", "m", " ">>
MilPsg == <<"M", "I", "L", "-", "P", "S", "G">>
RomOnly == <<"R", "O", "M">>
ThreeParts == <<"R", "O", "M", "-", "J", "U", "V", "-", "M", "I", "L">>

Entry(res, label) == [result |-> res, teams |-> label]

TeamMatchLists ==
    { <<>>,
      <<Entry("NG", RomJuv)>>,
      <<Entry("G", RomJuv)>>,
      <<Entry("NG", JuvRomTyped)>>,
      <<Entry("NG", MilPsg), Entry("G", RomOnly)>>,
      <<Entry("NG", ThreeParts), Entry("NG", NoTeams)>>,
      <<Entry("G", RomJuv), Entry("NG", JuvRom)>> }

TeamRecords ==
    [giornata : {<<"1">>}, ora : {T1000}, matches : TeamMatchLists]
      \cup [giornata : {<<"3">>}, ora : {T1005}, matches : TeamMatchLists]

InitTeam ==
    /\ SysInit
    /\ records \in SeqUpTo(TeamRecords, MaxTeamRecs)
    /\ args = [op |-> "none"]
    /\ result = NoResult

BuildTeamHistory ==
    /\ result = NoResult
    /\ args' = [op |-> "team_history"]
    /\ result' = [op |-> "team_history",
                  team_results |-> build_team_history_from_records(records)]
    /\ UNCHANGED <<sysvars, records>>

TeamStreak ==
    /\ result = NoResult
    /\ args' = [op |-> "team_streak"]
    /\ result' = [op |-> "team_streak",
                  teams |-> generate_streak_message_by_team(records)]
    /\ UNCHANGED <<sysvars, records>>

NextTeam == BuildTeamHistory \/ TeamStreak

SpecTeam == InitTeam /\ [][NextTeam]_vars

\* The two sides of a label that splits into exactly two parts, trimmed and
\* upper-cased; no side otherwise.
LabelSides(label) ==
    IF label # <<>> /\ Len(Split(label, "-")) = 2
    THEN <<Upper(Strip(Split(label, "-")[1])), Upper(Strip(Split(label, "-")[2]))>>
    ELSE <<>>

\* The places <<record, match entry, side>> (side 1 = home, 2 = away) where team
\* plays, and their order: record order, then entry order, home before away.
Appearances(recs, team) ==
    {p \in (1..Len(recs)) \X (1..2) \X (1..2) :
        /\ p[2] <= Len(recs[p[1]].matches)
        /\ LabelSides(recs[p[1]].matches[p[2]].teams) # <<>>
        /\ LabelSides(recs[p[1]].matches[p[2]].teams)[p[3]] = team}

Earlier(p, q) ==
    \/ p[1] < q[1]
    \/ p[1] = q[1] /\ p[2] < q[2]
    \/ p[1] = q[1] /\ p[2] = q[2] /\ p[3] < q[3]

ObservationAt(recs, p) ==
    [result |-> recs[p[1]].matches[p[2]].result,
     giornata |-> recs[p[1]].giornata,
     ora |-> recs[p[1]].ora,
     opponent |-> LabelSides(recs[p[1]].matches[p[2]].teams)[3 - p[3]]]

\* The team's observations as a record list for the per-position scan:
\* one record per observation, the outcome at position 0.
AsPositionRecords(results) ==
    [k \in 1..Len(results) |->
        [giornata |-> results[k].giornata, ora |-> results[k].ora,
         matches |-> <<Entry(results[k].result, NoTeams)>>]]

\* C6: for every team sequence, the per-team streak computation gives the same
\* current_streak, max_streak and histogram as the per-position Streak Engine on
\* the same sequence of (outcome, round) observations, including the forced close
\* of an active run when two successive rounds are not adjacent.
C6_TeamMatchesEngine ==
    result.op = "team_streak" =>
        \A team \in DOMAIN result.teams :
            LET engine == StreakScan(AsPositionRecords(
                              build_team_history_from_records(records)[team]), 0)
            IN  /\ result.teams[team].current_streak = engine.current_streak
                /\ result.teams[team].max_streak = engine.max_streak
                /\ result.teams[team].streak_counts = engine.streak_counts

\* C7: build_team_history_from_records gives every roster team exactly one
\* observation per match entry where it is the home side plus one per entry where
\* it is the away side, in record order, each with that record's round and time
\* and the other side as opponent; a side outside the roster (after trim and
\* upper-casing) and a label that does not split into exactly two parts add
\* nothing.
C7_TeamHistory ==
    result.op = "team_history" =>
        /\ DOMAIN result.team_results = TeamSet
        /\ \A team \in TeamSet :
              LET apps == Appearances(records, team)
              IN  /\ Len(result.team_results[team]) = Cardinality(apps)
                  /\ \A p \in apps :
                        result.team_results[team]
                              [1 + Cardinality({q \in apps : Earlier(q, p)})]
                            = ObservationAt(records, p)

\* ROM is home in round 1 and away in round 3 (typed in lower case): two
\* observations, each tagged with JUV as opponent and its own round and time.
C7_Witness ==
    /\ result.op = "team_history"
    /\ Len(records) = 2
    /\ records[1] = [giornata |-> <<"1">>, ora |-> T1000,
                     matches |-> <<Entry("NG", RomJuv)>>]
    /\ records[2] = [giornata |-> <<"3">>, ora |-> T1005,
                     matches |-> <<Entry("NG", JuvRomTyped)>>]
    /\ result.team_results[<<"R", "O", "M">>]
         = << [result |-> "NG", giornata |-> <<"1">>, ora |-> T1000,
               opponent |-> <<"J", "U", "V">>],
              [result |-> "NG", giornata |-> <<"3">>, ora |-> T1005,
               opponent |-> <<"J", "U", "V">>] >>

(***************************************************************************)
(* The "how long is the run right now" count of the stats report (per      *)
(* position) and of the team info report (per team).                       *)
(***************************************************************************)
\* str(n) for an integer.
RECURSIVE NatText(_)
NatText(n) ==
    IF n < 10 THEN <<DigitChar(n)>> ELSE Append(NatText(n \div 10), DigitChar(n % 10))

IntText(n) == IF n < 0 THEN <<"-">> \o NatText(0 - n) ELSE NatText(n)

\* f"{n:02d}" when int(g) succeeds, str(g) otherwise.
pad_giornata(g) ==
    IF ParsesAsInt(g)
    THEN LET t == IntText(IntOf(g))
         IN  IF Len(t) < 2 THEN <<"0">> \o t ELSE t
    ELSE g

CountStart ==
    [consecutive_ng |-> 0, consecutive_g |-> 0, total_g |-> 0, total_ng |-> 0,
     streak_started_at |-> None]

\* One iteration of the backward loop of generate_stats_message_from_db.
StatsStep(c, record, pos) ==
    IF pos < Len(record.matches)
    THEN IF record.matches[pos + 1].result = "NG"
         THEN [c EXCEPT
                 !.consecutive_ng = IF c.consecutive_g = 0 THEN @ + 1 ELSE @,
                 !.streak_started_at = IF c.consecutive_g = 0
                                       THEN pad_giornata(record.giornata)
                                       ELSE @,
                 !.total_ng = @ + 1]
         ELSE [c EXCEPT
                 !.consecutive_g = IF c.consecutive_ng = 0 THEN @ + 1 ELSE @,
                 !.total_g = @ + 1]
    ELSE c

\* for i in range(len(history) - 1, -1, -1), i being 0-based.
RECURSIVE StatsLoop(_, _, _, _)
StatsLoop(c, history, pos, i) ==
    IF i < 0 THEN c
    ELSE StatsLoop(StatsStep(c, history[i + 1], pos), history, pos, i - 1)

AlertIcon == "alert"
WarnIcon == "warning"
RedIcon == "red"
GreenIcon == "green"

\* The icon chain shared by the stats and the team info report.
IconFor(consecutive_ng, threshold) ==
    IF consecutive_ng >= threshold THEN AlertIcon
    ELSE IF consecutive_ng >= 4 THEN WarnIcon
    ELSE IF consecutive_ng > 0 THEN RedIcon
    ELSE GreenIcon

\* generate_stats_message_from_db on the loaded history: the "no data" message,
\* or one row per position and the threshold warning.
generate_stats_message(history, threshold) ==
    IF history = <<>> THEN [nodata |-> TRUE]
    ELSE LET count(pos) == StatsLoop(CountStart, history, pos, Len(history) - 1)
             rows == [pos \in Positions |->
                         [icon |-> IconFor(count(pos).consecutive_ng, threshold),
                          count |-> count(pos)]]
         IN  [nodata |-> FALSE, rows |-> rows,
              has_alert |-> \E pos \in Positions : rows[pos].icon = AlertIcon]

\* One iteration of the backward loop of generate_info_message_by_team.
TeamInfoStep(c, r) ==
    IF r.result = "NG"
    THEN [c EXCEPT !.consecutive_ng = IF c.consecutive_g = 0 THEN @ + 1 ELSE @,
                   !.total_ng = @ + 1]
    ELSE [c EXCEPT !.consecutive_g = IF c.consecutive_ng = 0 THEN @ + 1 ELSE @,
                   !.total_g = @ + 1]

RECURSIVE TeamInfoLoop(_, _, _)
TeamInfoLoop(c, results, i) ==
    IF i < 0 THEN c
    ELSE TeamInfoLoop(TeamInfoStep(c, results[i + 1]), results, i - 1)

TeamCountStart ==
    [consecutive_ng |-> 0, consecutive_g |-> 0, total_g |-> 0, total_ng |-> 0]

\* generate_info_message_by_team: one row per team that has results.
generate_info_message_by_team(all_records, threshold) ==
    LET team_history == build_team_history_from_records(all_records)
        count(team) == TeamInfoLoop(TeamCountStart, team_history[team],
                                     Len(team_history[team]) - 1)
    IN  [team \in {t \in TeamSet : team_history[t] # <<>>} |->
            [icon |-> IconFor(count(team).consecutive_ng, threshold),
             count |-> count(team)]]

(***************************************************************************)
(* The stats and team info reports on every ordered list of up to          *)
(* MaxStatsLen records (round 5 or 6, no entry or one ROM-JUV entry, NG or *)
(* G) and every alert threshold 1..MaxThreshold.                           *)
(***************************************************************************)
MaxStatsLen == 4
MaxThreshold == 3

StatsRecords ==
    [giornata : {<<"5">>, <<"6">>}, ora : {T1000},
     matches : {<<>>, <<Entry("NG", RomJuv)>>, <<Entry("G", RomJuv)>>}]

InitStats ==
    /\ SysInit
    /\ records \in SeqUpTo(StatsRecords, MaxStatsLen)
    /\ args \in [threshold : 1..MaxThreshold]
    /\ result = NoResult

StatsReport ==
    /\ result = NoResult
    /\ result' = [op |-> "stats",
                  report |-> generate_stats_message(records, args.threshold)]
    /\ UNCHANGED <<sysvars, records, args>>

TeamInfoReport ==
    /\ result = NoResult
    /\ result' = [op |-> "team_info",
                  rows |-> generate_info_message_by_team(records, args.threshold)]
    /\ UNCHANGED <<sysvars, records, args>>

NextStats == StatsReport \/ TeamInfoReport

SpecStats == InitStats /\ [][NextStats]_vars

\* The length of the longest suffix of an outcome sequence that is all NG.
TrailingNG(outs) ==
    CHOOSE k \in 0..Len(outs) :
        /\ \A j \in (Len(outs) - k + 1)..Len(outs) : outs[j].result = "NG"
        /\ k = Len(outs) \/ outs[Len(outs) - k].result # "NG"

HasStatsRows == result.op = "stats" /\ ~result.report.nodata

\* C2: in the stats report (per position) and in the team info report (per
\* team), the reported number of consecutive NG is the length of the longest
\* all-NG suffix of that position's / team's outcome sequence: the count runs
\* backward from the last record and stops at the first outcome that is not NG.
C2_TrailingCount ==
    /\ HasStatsRows =>
          \A pos \in Positions :
              result.report.rows[pos].count.consecutive_ng
                  = TrailingNG(Observed(records, pos))
    /\ result.op = "team_info" =>
          \A team \in DOMAIN result.rows :
              result.rows[team].count.consecutive_ng
                  = TrailingNG(build_team_history_from_records(records)[team])

\* C3: in the stats report a position gets the alert icon, and the report the
\* threshold warning, only when the NG run ending at that position's last record
\* is at least as long as the threshold; a position whose last outcome is not NG
\* gets the clean indicator, which no position with a trailing NG run has.
C3_AlertOnlyAtThreshold ==
    HasStatsRows =>
        /\ \A pos \in Positions :
              LET run == TrailingNG(Observed(records, pos))
                  icon == result.report.rows[pos].icon
              IN  /\ icon = AlertIcon => run >= args.threshold
                  /\ run = 0 => icon = GreenIcon
                  /\ run > 0 => icon # GreenIcon
        /\ result.report.has_alert =>
              \E pos \in Positions :
                  TrailingNG(Observed(records, pos)) >= args.threshold

(***************************************************************************)
(* The sync endpoint, telegram_sync, and historical_clear.                 *)
(*                                                                         *)
(* A JSON value that may be a number or a string is [t |-> "int", v |-> n] *)
(* or [t |-> "str", v |-> text]; a key the JSON object lacks is Absent.    *)
(***************************************************************************)
Absent == <<"absent">>
AbsentValue == [t |-> "absent"]

IntValue(n) == [t |-> "int", v |-> n]
StrValue(text) == [t |-> "str", v |-> text]
ListValue(list) == [t |-> "list", v |-> list]

\* str(x)
PyStr(x) == IF x.t = "int" THEN IntText(x.v) ELSE x.v

\* d.get(key, default) for a field that holds a text
GetText(field, default) == IF field = Absent THEN default ELSE field

\* d.get(key, default) for a field that holds a number or a string
GetValue(field, default) == IF field = AbsentValue THEN default ELSE field

\* a or b, for texts: a missing value (None) and the empty text are falsy
Or(a, b) == IF a = Absent \/ a = <<>> THEN b ELSE a

Sconosciuta == <<"s", "c", "o", "n", "o", "s", "c", "i", "u", "t", "a">>

\* record.get("dataRicerca") or record.get("data") or "sconosciuta"
DataSisal(record) == Or(record.dataRicerca, Or(record.data, Sconosciuta))

\* str(record.get("giornata", "?"))
GiornataText(record) == PyStr(GetValue(record.giornata, StrValue(<<"?">>)))

\* A slip that leaves the time out of the key.
SyncKey_no_ora(data_sisal, giornata, ora) == data_sisal \o <<"_">> \o giornata

\* f"{data_sisal}_{giornata}_{ora}"
SyncKey(data_sisal, giornata, ora) ==
    data_sisal \o <<"_">> \o giornata \o <<"_">> \o ora

\* The document telegram_sync writes for batch item number idx (0-based).
HistoricalDoc(record, idx, synced_at) ==
    [_id |-> SyncKey(DataSisal(record), GiornataText(record),
                     GetText(record.ora, <<>>)),
     data_sisal |-> DataSisal(record),
     data_estrazione |-> GetText(record.data, <<>>),
     giornata |-> GiornataText(record),
     ora |-> GetText(record.ora, <<>>),
     matches |-> GetValue(record.matches, ListValue(<<>>)).v,
     synced_at |-> synced_at,
     order |-> GetValue(record.id, IntValue(idx))]

\* update_one({"_id": key}, {"$set": fields}, upsert=True): the document with
\* that _id takes the fields, or is inserted; upserted tells which.
UpsertOne(coll, doc) ==
    IF \E d \in coll : d._id = doc._id
    THEN [coll |-> {d \in coll : d._id # doc._id} \cup {doc}, upserted |-> FALSE]
    ELSE [coll |-> coll \cup {doc}, upserted |-> TRUE]

\* A slip that counts every item of the batch as new.
CountUpsert_always(new_count, upserted) == new_count + 1

\* if result.upserted_id: new_count += 1
CountUpsert(new_count, upserted) == IF upserted THEN new_count + 1 ELSE new_count

\* The loop over the batch: acc is [coll, new_count]; idx is 0-based.
RECURSIVE AccumulateFrom(_, _, _, _)
AccumulateFrom(acc, history, idx, synced_at) ==
    IF idx >= Len(history) THEN acc
    ELSE LET up == UpsertOne(acc.coll,
                             HistoricalDoc(history[idx + 1], idx, synced_at))
         IN  AccumulateFrom([coll |-> up.coll,
                             new_count |-> CountUpsert(acc.new_count, up.upserted)],
                            history, idx + 1, synced_at)

\* str(r.get("id", ""))
IdText(r) == PyStr(GetValue(r.id, StrValue(<<>>)))

\* A slip that compares identifiers as they are, 1 differing from "1".
SameId_raw(r, old) == GetValue(r.id, StrValue(<<>>)) = GetValue(old.id, StrValue(<<>>))

SameId(r, old) == IdText(r) = IdText(old)

\* A slip that appends every item of the batch, present or not.
AppendNew_all(state_history, existing, history, k) == state_history \o history

\* The incremental branch: existing_ids is taken once, before the loop.
RECURSIVE AppendNew(_, _, _, _)
AppendNew(state_history, existing, history, k) ==
    IF k > Len(history) THEN state_history
    ELSE AppendNew(IF \E j \in 1..Len(existing) : SameId(history[k], existing[j])
                   THEN state_history
                   ELSE Append(state_history, history[k]),
                   existing, history, k + 1)

MergeHistory(state_history, history, is_incremental) ==
    IF ~is_incremental THEN history
    ELSE AppendNew(state_history, state_history, history, 1)

\* The timestamp text of a request: the clock reading, in decimal.
Stamp(clock) == IntText(clock)

\* The fields telegram_sync reads from the request body, with their defaults.
BotToken(data) == GetText(data.bot_token, None)
ChatId(data) == GetText(data.chat_id, None)
Threshold(data) == GetValue(data.threshold, IntValue(6)).v
Templates(data) == IF data.rendered_templates = AbsentValue THEN EmptyDict
                   ELSE data.rendered_templates.v
TotalLocal(data) == GetValue(data.total_local, IntValue(Len(data.history))).v

MaxSyncs == 3

\* POST /telegram/sync, run to completion.
telegram_sync(data) ==
    /\ now < MaxSyncs
    /\ LET stamp == Stamp(now + 1)
           merged == MergeHistory(telegram_state.history, data.history,
                                  data.is_incremental)
           acc == AccumulateFrom([coll |-> fas_historical, new_count |-> 0],
                                 data.history, 0, stamp)
       IN  /\ telegram_state' =
                  [bot_token |-> BotToken(data), chat_id |-> ChatId(data),
                   history |-> merged, threshold |-> Threshold(data),
                   last_sync |-> stamp, rendered_templates |-> Templates(data)]
           /\ fas_telegram_sync' =
                  DictPut(fas_telegram_sync, "current",
                          [bot_token |-> BotToken(data), chat_id |-> ChatId(data),
                           history |-> merged, threshold |-> Threshold(data),
                           rendered_templates |-> Templates(data),
                           last_sync |-> stamp, total_local |-> TotalLocal(data)])
           /\ fas_historical' = acc.coll
           /\ response' =
                  [op |-> "sync", request |-> data,
                   body |-> [status |-> "ok",
                             synced_giornate |-> Len(data.history),
                             new_records |-> acc.new_count,
                             total_historical |-> Cardinality(acc.coll),
                             incremental |-> data.is_incremental]]
    /\ now' = now + 1
    /\ outbound' = <<>>
    /\ UNCHANGED <<tasks, funvars>>

\* DELETE /historical/clear: one date's records, or all when no date is given.
\* A slip that empties the history in memory along with the collection.
historical_clear_forgets(date) ==
    /\ LET gone == IF date # None /\ date # <<>>
                   THEN {d \in fas_historical : d.data_sisal = date}
                   ELSE fas_historical
       IN  /\ fas_historical' = fas_historical \ gone
           /\ response' = [op |-> "clear", request |-> [date |-> date],
                           body |-> [deleted |-> Cardinality(gone)]]
    /\ outbound' = <<>>
    /\ telegram_state' = [telegram_state EXCEPT !.history = <<>>]
    /\ UNCHANGED <<fas_telegram_sync, now, tasks, funvars>>

historical_clear(date) ==
    /\ LET gone == IF date # None /\ date # <<>>
                   THEN {d \in fas_historical : d.data_sisal = date}
                   ELSE fas_historical
       IN  /\ fas_historical' = fas_historical \ gone
           /\ response' = [op |-> "clear", request |-> [date |-> date],
                           body |-> [deleted |-> Cardinality(gone)]]
    /\ outbound' = <<>>
    /\ UNCHANGED <<telegram_state, fas_telegram_sync, now, tasks, funvars>>

\* A slip that restores everything but the templates.
StateFrom_no_templates(saved) ==
    [bot_token |-> saved.bot_token, chat_id |-> saved.chat_id,
     history |-> saved.history, threshold |-> saved.threshold,
     last_sync |-> saved.last_sync, rendered_templates |-> EmptyDict]

\* The six assignments of load_telegram_state.  The saved document is always
\* one telegram_sync wrote, so every key it reads is present.
StateFrom(saved) ==
    [bot_token |-> saved.bot_token, chat_id |-> saved.chat_id,
     history |-> saved.history, threshold |-> saved.threshold,
     last_sync |-> saved.last_sync,
     rendered_templates |-> saved.rendered_templates]

\* A process start: the module-level telegram_state is built afresh, then the
\* startup hook load_telegram_state reads the document "current", if any.  The
\* deletions the former process had scheduled are gone with it.
load_telegram_state ==
    /\ telegram_state' =
          IF "current" \in DOMAIN fas_telegram_sync
          THEN StateFrom(fas_telegram_sync["current"])
          ELSE InitialState
    /\ response' = [op |-> "load"]
    /\ outbound' = <<>>
    /\ tasks' = {}
    /\ UNCHANGED <<fas_telegram_sync, fas_historical, now, funvars>>

(***************************************************************************)
(* _sort_records: the chronological order of the reports.                  *)
(***************************************************************************)
\* The characters of the model's texts, in code point order.
Alphabet ==
    <<"\t", "\n", " ", "-", "/",
      "0", "1", "2", "3", "4", "5", "6", "7", "8", "9", ":", "?",
      "A", "D", "E", "G", "I", "J", "L", "M", "N", "O", "P", "R", "S", "T",
      "U", "V", "Z", "_",
      "a", "c", "d", "i", "j", "m", "n", "o", "r", "s", "t", "u", "v", "x",
      "y", "{", "}">>

CharCode(c) == CHOOSE i \in 1..Len(Alphabet) : Alphabet[i] = c

\* a < b for two str values: the first differing character decides, a proper
\* prefix comes first.
RECURSIVE TextLess(_, _)
TextLess(a, b) ==
    IF b = <<>> THEN FALSE
    ELSE IF a = <<>> THEN TRUE
    ELSE IF Head(a) = Head(b) THEN TextLess(Tail(a), Tail(b))
    ELSE CharCode(Head(a)) < CharCode(Head(b))

ZeroDate == <<"0", "0", "/", "0", "0", "/", "0", "0", "0", "0">>
ZeroTime == <<"0", "0", ":", "0", "0">>

\* A slip that sorts on the date as it is written, day first.
DateStr_raw(d) == d

\* f"{parts[2]}{parts[1]}{parts[0]}" if len(parts) == 3 else d
DateStr(d) ==
    LET parts == Split(d, "/")
    IN  IF Len(parts) = 3 THEN parts[3] \o parts[2] \o parts[1] ELSE d

\* int(r.get("giornata", 0)), 0 on ValueError or TypeError.
RoundNumber(r) ==
    IF "giornata" \notin DOMAIN r THEN 0
    ELSE IF ParsesAsInt(r.giornata) THEN IntOf(r.giornata)
    ELSE 0

\* sort_key(r) = (date_str, ora, g)
sort_key(r) ==
    <<DateStr(DictGet(r, "data_sisal", DictGet(r, "data", ZeroDate))),
      DictGet(r, "ora", ZeroTime),
      RoundNumber(r)>>

\* k1 < k2 for two (str, str, int) tuples.
KeyLess(k1, k2) ==
    \/ TextLess(k1[1], k2[1])
    \/ /\ k1[1] = k2[1]
       /\ \/ TextLess(k1[2], k2[2])
          \/ k1[2] = k2[2] /\ k1[3] < k2[3]

\* list.sort(key=sort_key) is stable: a record goes behind every record
\* already placed whose key is not greater than its own.
RECURSIVE SortedInsert(_, _)
SortedInsert(sorted, r) ==
    IF sorted = <<>> THEN <<r>>
    ELSE IF KeyLess(sort_key(r), sort_key(Head(sorted))) THEN <<r>> \o sorted
    ELSE <<Head(sorted)>> \o SortedInsert(Tail(sorted), r)

RECURSIVE SortFrom(_, _, _)
SortFrom(sorted, recs, i) ==
    IF i > Len(recs) THEN sorted
    ELSE SortFrom(SortedInsert(sorted, recs[i]), recs, i + 1)

_sort_records(recs) == SortFrom(<<>>, recs, 1)

(***************************************************************************)
(* _sort_records on every list of up to MaxSortLen of the records below:   *)
(* dates of three parts, of one part and missing, times present and        *)
(* missing, rounds numeric, padded, non-numeric and missing.               *)
(***************************************************************************)
MaxSortLen == 3

Date1 == <<"0", "1", "/", "0", "2", "/", "2", "0", "2", "6">>
Date2 == <<"0", "2", "/", "0", "1", "/", "2", "0", "2", "6">>
DateBare == <<"2", "0", "2", "6">>

SortRecords ==
    { [data_sisal |-> Date1, ora |-> T1000, giornata |-> <<"5">>],
      [data_sisal |-> Date1, ora |-> T1000, giornata |-> <<"1", "0">>],
      [data_sisal |-> Date1, ora |-> T1000, giornata |-> <<"0", "5">>],
      [data_sisal |-> Date2, ora |-> T1005, giornata |-> <<"x">>],
      [data_sisal |-> Date2, ora |-> T1005, giornata |-> <<"?">>],
      [data_sisal |-> Date2, ora |-> T1005],
      [data |-> Date2, ora |-> T1000, giornata |-> <<"5">>],
      [data_sisal |-> DateBare, giornata |-> <<"1">>],
      [ora |-> T1000, giornata |-> <<"1">>] }

InitSort ==
    /\ SysInit
    /\ records \in SeqUpTo(SortRecords, MaxSortLen)
    /\ args = [op |-> "none"]
    /\ result = NoResult

SortRecordsCall ==
    /\ result = NoResult
    /\ result' = [op |-> "sort", sorted |-> _sort_records(records)]
    /\ UNCHANGED <<sysvars, records, args>>

NextSort == SortRecordsCall

SpecSort == InitSort /\ [][NextSort]_vars

\* The date of a record as the claim normalises it: year, month, day when the
\* date has exactly two slashes, the date as written otherwise.
NormalDate(r) ==
    LET d == IF "data_sisal" \in DOMAIN r THEN r.data_sisal
             ELSE IF "data" \in DOMAIN r THEN r.data ELSE ZeroDate
        slashes == {k \in 1..Len(d) : d[k] = "/"}
    IN  IF Cardinality(slashes) = 2
        THEN LET a == CHOOSE k \in slashes : \A x \in slashes : k <= x
                 b == CHOOSE k \in slashes : \A x \in slashes : k >= x
             IN  SubSeq(d, b + 1, Len(d)) \o SubSeq(d, a + 1, b - 1)
                     \o SubSeq(d, 1, a - 1)
        ELSE d

NormalTime(r) == IF "ora" \in DOMAIN r THEN r.ora ELSE ZeroTime

NormalRound(r) ==
    IF "giornata" \in DOMAIN r /\ ParsesAsInt(r.giornata) THEN IntOf(r.giornata)
    ELSE 0

\* r comes strictly before q in the (date, time, round) order.
Before(r, q) ==
    \/ TextLess(NormalDate(r), NormalDate(q))
    \/ /\ NormalDate(r) = NormalDate(q)
       /\ \/ TextLess(NormalTime(r), NormalTime(q))
          \/ NormalTime(r) = NormalTime(q) /\ NormalRound(r) < NormalRound(q)

\* C14: _sort_records returns a permutation of its input in ascending order of
\* the key (date rewritten from DD/MM/YYYY to YYYYMMDD or taken as written when
\* it has not three parts, time text, round as an integer or 0 when missing or
\* not numeric), records with equal keys keeping their input order.
C14_SortRecords ==
    result.op = "sort" =>
        LET n == Len(records)
            out == result.sorted
        IN  /\ Len(out) = n
            /\ \E p \in [1..n -> 1..n] :
                  /\ \A i, k \in 1..n : i # k => p[i] # p[k]
                  /\ \A i \in 1..n : out[i] = records[p[i]]
                  /\ \A i, k \in 1..n :
                        i < k => /\ ~Before(out[k], out[i])
                                 /\ ~Before(out[i], out[k]) => p[i] < p[k]

\* 02/01/2026 sorts before 01/02/2026 although it is the greater text, and the
\* two records of that day, rounds "x" and "?" (both 0), keep their input order.
C14_Witness ==
    /\ result.op = "sort"
    /\ records = << [data_sisal |-> Date2, ora |-> T1005, giornata |-> <<"x">>],
                    [data_sisal |-> Date1, ora |-> T1000, giornata |-> <<"5">>],
                    [data_sisal |-> Date2, ora |-> T1005, giornata |-> <<"?">>] >>
    /\ result.sorted = <<records[1], records[3], records[2]>>

(***************************************************************************)
(* The report texts.  A text is a sequence whose elements are the          *)
(* characters of interpolated data and, as one element each, the literal   *)
(* fragments of the f-strings (written without their emoji).  A renderer   *)
(* returns Returned(text), or Raised when an exception leaves it.          *)
(***************************************************************************)
Raised == [raised |-> TRUE]

Returned(text) == [raised |-> FALSE, text |-> text]

NessunDato == "Nessun dato. Sincronizza con Sync."
NessunDatoRaw == "(nessun dato)"
NessunDatoOggi == "Nessun dato per oggi ("
ClockMark == "(ore) "
Rule == "-----------------\n"

\* now_italy().strftime('%d/%m/%Y'): the first two clock readings fall on one
\* day, the later ones on another.
Today(clock) == IF clock < 2 THEN Date1 ELSE Date2

\* now_italy().strftime('%d/%m/%Y %H:%M')
now_italy(clock) ==
    Today(clock) \o <<" ", "1", "0", ":">>
        \o (IF clock < 10 THEN <<"0">> ELSE <<>>) \o IntText(clock)

\* The texts of a sequence of texts, one after the other.
RECURSIVE Concat(_)
Concat(texts) == IF texts = <<>> THEN <<>> ELSE Head(texts) \o Concat(Tail(texts))

Reverse(s) == [k \in 1..Len(s) |-> s[Len(s) + 1 - k]]

\* a < b for two values of the field order, where Python can compare them.
ValueLess(a, b) == IF a.t = "int" THEN a.v < b.v ELSE TextLess(a.v, b.v)

\* all_records.sort(key=lambda r: r.get("order", 0)) raises TypeError when it
\* has to compare a str with an int.
OrderSortRaises(recs) ==
    \E i, k \in 1..Len(recs) : recs[i].order.t # recs[k].order.t

RECURSIVE OrderInsert(_, _)
OrderInsert(sorted, r) ==
    IF sorted = <<>> THEN <<r>>
    ELSE IF ValueLess(r.order, Head(sorted).order) THEN <<r>> \o sorted
    ELSE <<Head(sorted)>> \o OrderInsert(Tail(sorted), r)

RECURSIVE OrderSortFrom(_, _, _)
OrderSortFrom(sorted, recs, i) ==
    IF i > Len(recs) THEN sorted
    ELSE OrderSortFrom(OrderInsert(sorted, recs[i]), recs, i + 1)

\* The same sort where it does not raise: stable, ascending by order.
order_sort(recs) == OrderSortFrom(<<>>, recs, 1)

\* The order MongoDB sorts the field order by: every number before every
\* string, numbers by value, strings by their characters.
BsonLess(a, b) ==
    IF a.t = b.t THEN ValueLess(a, b) ELSE a.t = "int" /\ b.t = "str"

HISTORY_LIMIT == 15

\* find(...).sort("order", -1).limit(k): the listings MongoDB may return, the
\* place of documents with equal order being its choice.
RECURSIVE DescendingByOrder(_, _)
DescendingByOrder(docs, k) ==
    IF docs = {} \/ k = 0 THEN {<<>>}
    ELSE UNION { {<<d>> \o rest : rest \in DescendingByOrder(docs \ {d}, k - 1)} :
                   d \in {x \in docs : \A y \in docs : ~BsonLess(x.order, y.order)} }

\* find(...).sort("order", 1)
AscendingByOrder(docs) ==
    {Reverse(s) : s \in DescendingByOrder(docs, Cardinality(docs))}

\* A slip that leaves the limit out of the query.
history_query_unlimited(docs) == DescendingByOrder(docs, Cardinality(docs))

\* find({}, {"_id": 0}).sort("order", -1).limit(15) and to_list
history_query(docs) == DescendingByOrder(docs, HISTORY_LIMIT)

\* find({}) without a sort: the documents in an order of MongoDB's choice.
RECURSIVE Listings(_)
Listings(docs) ==
    IF docs = {} THEN {<<>>}
    ELSE UNION { {<<d>> \o rest : rest \in Listings(docs \ {d})} : d \in docs }

\* _load_all_historical: what the chronological sort may return.
load_all_historical(docs) == {_sort_records(natural) : natural \in Listings(docs)}

\* db.fas_historical.distinct("data_sisal")
DistinctDates(docs) == {d.data_sisal : d \in docs}

\* " ".join(green or red icon for m in matches)
RECURSIVE ResultIcons(_, _)
ResultIcons(matches, k) ==
    IF k > Len(matches) THEN <<>>
    ELSE (IF k > 1 THEN <<" ">> ELSE <<>>)
            \o <<IF matches[k].result = "G" THEN GreenIcon ELSE RedIcon>>
            \o ResultIcons(matches, k + 1)

\* f"G<b>{g}</b> {ora}  {results}\n"
HistoryRow(r) ==
    <<"G<b>">> \o pad_giornata(r.giornata) \o <<"</b>", " ">> \o r.ora
        \o <<" ", " ">> \o ResultIcons(r.matches, 1) \o <<"\n">>

RECURSIVE HistoryRows(_, _)
HistoryRows(recs, i) ==
    IF i > Len(recs) THEN <<>> ELSE HistoryRow(recs[i]) \o HistoryRows(recs, i + 1)

\* generate_history_message_from_db, given the listing its query returned and
\* the size of the collection.
generate_history_message_from_db(fetched, total, raw_data_only, clock) ==
    IF fetched = <<>>
    THEN IF raw_data_only THEN <<NessunDatoRaw>>
         ELSE <<"<b>STORICO FAS</b>\n\n", NessunDato>>
    ELSE LET recs == Reverse(fetched)
             data_rows == HistoryRows(recs, 1)
         IN  IF raw_data_only THEN Strip(data_rows)
             ELSE <<"<b>STORICO FAS</b>\n\n", "<b>ULTIME ">> \o IntText(Len(recs))
                     \o <<" GIORNATE</b> (di ">> \o IntText(total)
                     \o <<" totali)\n", Rule, "   1   2   3   4   5   6\n">>
                     \o data_rows \o <<"\n", ClockMark>> \o now_italy(clock)

\* generate_info_message_from_db
generate_info_message_from_db(docs, threshold, clock) ==
    <<"<b>FAS MONITOR</b>\n", Rule, "\n",
      "Monitora Goal/No Goal della FAS League\n\n", "<b>Soglia allarme:</b> ">>
        \o IntText(threshold)
        \o <<" NG consecutivi\n", "<b>Giornate in DB:</b> ">>
        \o IntText(Cardinality(docs)) \o <<" (">>
        \o IntText(Cardinality(DistinctDates(docs)))
        \o <<" giorni)\n", "<b>Intervallo auto:</b> 5 minuti\n", "\n", ClockMark>>
        \o now_italy(clock)

\* One row of the stats report.
StatsRow(pos, row) ==
    <<row.icon, " <b>Serie ">> \o IntText(pos + 1) \o <<"</b>: ">>
        \o (IF row.count.consecutive_ng > 0
            THEN <<"<b>">> \o IntText(row.count.consecutive_ng)
                    \o <<" NG di fila</b>">>
                    \o (IF row.count.streak_started_at \notin {None, <<>>}
                        THEN <<" (da G">> \o row.count.streak_started_at \o <<")">>
                        ELSE <<>>)
            ELSE IntText(row.count.consecutive_g) \o <<"x G">>)
        \o <<"  [G:">> \o IntText(row.count.total_g) \o <<" NG:">>
        \o IntText(row.count.total_ng) \o <<"]\n">>

\* generate_stats_message_from_db on the loaded history.
generate_stats_message_from_db(history, threshold, clock) ==
    LET report == generate_stats_message(history, threshold)
    IN  IF report.nodata THEN <<"<b>STATISTICHE FAS</b>\n\n", NessunDato>>
        ELSE LET last_record == history[Len(history)]
             IN  <<"<b>STATISTICHE FAS</b>\n", "<b>">> \o last_record.data_sisal
                     \o <<"</b> - Giornata ">> \o pad_giornata(last_record.giornata)
                     \o <<"\n", Rule, "\n">>
                     \o Concat([k \in 1..6 |-> StatsRow(k - 1, report.rows[k - 1])])
                     \o <<"\nGiornate analizzate: <b>">> \o IntText(Len(history))
                     \o <<"</b>", "\nSoglia allarme: <b>">> \o IntText(threshold)
                     \o <<"</b> NG">>
                     \o (IF report.has_alert
                         THEN <<"\n\n<b>ATTENZIONE: Soglia superata!</b>">>
                         ELSE <<>>)
                     \o <<"\n\n", ClockMark>> \o now_italy(clock)

\* sorted(streak_counts.keys(), reverse=True)
RECURSIVE Descending(_)
Descending(keys) ==
    IF keys = {} THEN <<>>
    ELSE LET m == CHOOSE x \in keys : \A y \in keys : y <= x
         IN  <<m>> \o Descending(keys \ {m})

\* The histogram lines of a streak section.
Occurrences(streak_counts) ==
    IF DOMAIN streak_counts = {} THEN <<>>
    ELSE <<"   Occorrenze (>=5):\n">>
            \o LET lengths == Descending(DOMAIN streak_counts)
               IN  Concat([k \in 1..Len(lengths) |->
                       <<"   - ">> \o IntText(lengths[k]) \o <<" NG -> <b>">>
                           \o IntText(streak_counts[lengths[k]]) \o <<"</b> ">>
                           \o <<IF streak_counts[lengths[k]] = 1 THEN "volta"
                                ELSE "volte", "\n">>])

\* The lines after the title of a section of the streak reports.
SectionBody(st, with_start) ==
    <<"   Max streak: <b>">> \o IntText(st.max_streak) \o <<"</b> NG\n">>
        \o Occurrences(st.streak_counts)
        \o (IF st.ongoing_streak /\ st.current_streak >= MIN_STREAK
            THEN <<"   <b>In corso: ">> \o IntText(st.current_streak)
                    \o <<" NG</b>">>
                    \o (IF with_start
                        THEN <<" (da G">> \o st.current_streak_start \o <<")">>
                        ELSE <<>>)
                    \o <<"\n">>
            ELSE <<>>)
        \o <<"\n">>

PositionTitle(pos) == <<"<b>POSIZIONE ">> \o IntText(pos + 1) \o <<"</b>\n">>

TeamTitle(team) == <<"<b>">> \o team \o <<"</b>\n">>

\* A slip that gives every position a section in the total streak report.
SectionOf_always(st, pos) == PositionTitle(pos) \o SectionBody(st, TRUE)

\* The section of one position in the total streak report, if it has one.
SectionOf(st, pos) ==
    IF DOMAIN st.streak_counts # {} \/ st.max_streak >= MIN_STREAK
    THEN PositionTitle(pos) \o SectionBody(st, TRUE)
    ELSE <<>>

StreakSection(recs, pos) == SectionOf(StreakScan(recs, pos), pos)

\* generate_streak_message_from_db on the loaded records.
generate_streak_message_from_db(loaded, clock) ==
    IF loaded = <<>> THEN Returned(<<"<b>ANALISI STREAK NG</b>\n\n", NessunDato>>)
    ELSE IF OrderSortRaises(loaded) THEN Raised
    ELSE LET all_records == order_sort(loaded)
         IN  Returned(
               <<"<b>STREAK TOTALE NG (>=5)</b>\n", "Analisi su <b>">>
                   \o IntText(Len(all_records))
                   \o <<"</b> giornate totali\n", Rule, "\n">>
                   \o Concat([k \in 1..6 |-> StreakSection(all_records, k - 1)])
                   \o <<ClockMark>> \o now_italy(clock))

\* The section of one position in the daily report: every position has one.
DailySectionOf(st, pos) ==
    IF DOMAIN st.streak_counts # {} \/ st.max_streak >= MIN_STREAK
    THEN PositionTitle(pos) \o SectionBody(st, TRUE)
    ELSE PositionTitle(pos) \o <<"   Max streak: <b>">>
            \o IntText(st.max_streak) \o <<"</b> NG\n\n">>

DailySection(recs, pos) == DailySectionOf(DailyStreakScan(recs, pos), pos)

\* generate_streak_daily_message_from_db, given today's records as its query
\* returned them.
generate_streak_daily_message_from_db(today_records, clock) ==
    IF today_records = <<>>
    THEN <<"<b>STREAK GIORNALIERO</b>\n\n", NessunDatoOggi>> \o Today(clock)
            \o <<").\n\nSincronizza con Sync.\n\n", ClockMark>> \o now_italy(clock)
    ELSE <<"<b>STREAK GIORNALIERO (>=5)</b>\n", "Data: <b>">> \o Today(clock)
            \o <<"</b>\n", "Giornate analizzate: <b>">>
            \o IntText(Len(today_records)) \o <<"</b>\n", Rule, "\n">>
            \o Concat([k \in 1..6 |-> DailySection(today_records, k - 1)])
            \o <<ClockMark>> \o now_italy(clock)

\* "".join(green or red icon for r in last_results)
IconsOf(results) ==
    [k \in 1..Len(results) |->
        IF results[k].result = "G" THEN GreenIcon ELSE RedIcon]

\* results[-10:]
LastTen(results) ==
    IF Len(results) <= 10 THEN results
    ELSE SubSeq(results, Len(results) - 9, Len(results))

\* The rows of the loop over TEAMS, a team without results giving none.
TeamRows(team_history, Row(_)) ==
    Concat([k \in 1..Len(TEAMS) |->
               IF team_history[TEAMS[k]] = <<>> THEN <<>> ELSE Row(TEAMS[k])])

\* generate_history_message_by_team on the loaded records.
generate_history_message_by_team(loaded, raw_data_only, clock) ==
    IF loaded = <<>>
    THEN Returned(IF raw_data_only THEN <<NessunDatoRaw>>
                  ELSE <<"<b>STORICO PER SQUADRA</b>\n\n", NessunDato>>)
    ELSE IF OrderSortRaises(loaded) THEN Raised
    ELSE LET team_history == build_team_history_from_records(order_sort(loaded))
             row(team) == <<"<b>">> \o team \o <<"</b>: ">>
                             \o IconsOf(LastTen(team_history[team])) \o <<"\n">>
             data_rows == TeamRows(team_history, row)
         IN  Returned(IF raw_data_only THEN Strip(data_rows)
                      ELSE <<"<b>STORICO PER SQUADRA</b>\n", Rule, "\n">>
                              \o data_rows \o <<"\n", ClockMark>>
                              \o now_italy(clock))

\* One row of the team info report.
InfoRow(team, row) ==
    <<row.icon, " <b>">> \o team \o <<"</b>: ">>
        \o (IF row.count.consecutive_ng > 0
            THEN <<"<b>">> \o IntText(row.count.consecutive_ng)
                    \o <<" NG di fila</b>">>
            ELSE IntText(row.count.consecutive_g) \o <<"x G">>)
        \o <<"  [G:">> \o IntText(row.count.total_g) \o <<" NG:">>
        \o IntText(row.count.total_ng) \o <<"]\n">>

InfoRows(team_history, rows) ==
    Concat([k \in 1..Len(TEAMS) |->
               IF team_history[TEAMS[k]] = <<>> THEN <<>>
               ELSE InfoRow(TEAMS[k], rows[TEAMS[k]])])

\* The text of generate_info_message_by_team: no branch for an empty history.
info_by_team_text(loaded, threshold, clock) ==
    <<"<b>INFO PER SQUADRA</b>\n", Rule, "\n">>
        \o InfoRows(build_team_history_from_records(loaded),
                    generate_info_message_by_team(loaded, threshold))
        \o <<"\n", ClockMark>> \o now_italy(clock)

\* The text of generate_streak_message_by_team on the loaded records.
streak_by_team_text(loaded, clock) ==
    IF loaded = <<>>
    THEN Returned(<<"<b>STREAK PER SQUADRA</b>\n\n", NessunDato>>)
    ELSE IF OrderSortRaises(loaded) THEN Raised
    ELSE LET all_records == order_sort(loaded)
             team_history == build_team_history_from_records(all_records)
             scans == generate_streak_message_by_team(all_records)
             section(team) ==
                 IF DOMAIN scans[team].streak_counts # {}
                       \/ scans[team].max_streak >= MIN_STREAK
                 THEN TeamTitle(team) \o SectionBody(scans[team], FALSE)
                 ELSE <<>>
         IN  Returned(
               <<"<b>STREAK SQUADRE (>=5)</b>\n", "Analisi su <b>">>
                   \o IntText(Len(all_records))
                   \o <<"</b> giornate totali\n", Rule, "\n">>
                   \o TeamRows(team_history, section)
                   \o <<ClockMark>> \o now_italy(clock))

\* generate_streak_daily_message_by_team, given today's records as its query
\* returned them; its loop is that of the total report without the histogram.
generate_streak_daily_message_by_team(today_records, clock) ==
    IF today_records = <<>>
    THEN <<"<b>STREAK GIORNALIERO SQUADRE</b>\n\n", NessunDatoOggi>>
            \o Today(clock) \o <<").\n\n", ClockMark>> \o now_italy(clock)
    ELSE LET team_history == build_team_history_from_records(today_records)
             section(team) ==
                 LET st == TeamStreakLoop(TeamScanStart, team_history[team], 0)
                     open == st.ongoing_streak /\ st.current_streak >= MIN_STREAK
                 IN  IF st.max_streak >= MIN_STREAK \/ open
                     THEN TeamTitle(team) \o <<"   Max streak: <b>">>
                             \o IntText(st.max_streak) \o <<"</b> NG\n">>
                             \o (IF open
                                 THEN <<"   <b>In corso: ">>
                                         \o IntText(st.current_streak)
                                         \o <<" NG</b>\n">>
                                 ELSE <<>>)
                             \o <<"\n">>
                     ELSE <<>>
         IN  <<"<b>STREAK GIORNALIERO SQUADRE (>=5)</b>\n", "Data: <b>">>
                 \o Today(clock) \o <<"</b>\n", "Giornate: <b>">>
                 \o IntText(Len(today_records)) \o <<"</b>\n", Rule, "\n">>
                 \o TeamRows(team_history, section)
                 \o <<ClockMark>> \o now_italy(clock)

(***************************************************************************)
(* The other endpoints.  response is what the last request returned, and   *)
(* outbound the calls it made to the messaging service, each with the      *)
(* reply it got; tasks are the scheduled deletions not yet run.            *)
(***************************************************************************)
LowerChar(c) ==
    CASE c = "A" -> "a" [] c = "B" -> "b" [] c = "C" -> "c" [] c = "D" -> "d"
      [] c = "E" -> "e" [] c = "F" -> "f" [] c = "G" -> "g" [] c = "H" -> "h"
      [] c = "I" -> "i" [] c = "J" -> "j" [] c = "K" -> "k" [] c = "L" -> "l"
      [] c = "M" -> "m" [] c = "N" -> "n" [] c = "O" -> "o" [] c = "P" -> "p"
      [] c = "Q" -> "q" [] c = "R" -> "r" [] c = "S" -> "s" [] c = "T" -> "t"
      [] c = "U" -> "u" [] c = "V" -> "v" [] c = "W" -> "w" [] c = "X" -> "x"
      [] c = "Y" -> "y" [] c = "Z" -> "z"
      [] OTHER -> c

\* str.lower(), on ASCII letters.
Lower(s) == [k \in 1..Len(s) |-> LowerChar(s[k])]

\* pat in s
Contains(s, pat) ==
    \E k \in 1..(Len(s) - Len(pat) + 1) : SubSeq(s, k, k + Len(pat) - 1) = pat


\* The places of s where pat occurs.
Occurrences_of(s, pat) ==
    {k \in 1..(Len(s) - Len(pat) + 1) : SubSeq(s, k, k + Len(pat) - 1) = pat}

\* s.replace(pat, by): every occurrence of pat, left to right, none overlapping.
RECURSIVE Replace(_, _, _)
Replace(s, pat, by) ==
    IF Occurrences_of(s, pat) = {} THEN s
    ELSE LET k == CHOOSE i \in Occurrences_of(s, pat) :
                      \A h \in Occurrences_of(s, pat) : i <= h
         IN  SubSeq(s, 1, k - 1) \o by
                 \o Replace(SubSeq(s, k + Len(pat), Len(s)), pat, by)

DataPlaceholder == <<"{", "d", "a", "t", "a", "}">>
TimestampPlaceholder == <<"{", "t", "i", "m", "e", "s", "t", "a", "m", "p", "}">>

\* a or b for two texts that may be None: None and "" are falsy.
Truthy(a) == a # None /\ a # <<>>

InternalServerError == [status |-> "Internal Server Error"]

\* What a renderer's outcome becomes as the body of a render endpoint.
TextBody(outcome) ==
    IF outcome.raised THEN InternalServerError ELSE [text |-> outcome.text]

TodayDocs == {d \in fas_historical : d.data_sisal = Today(now)}

\* The outcomes a report of the five callback kinds may have on the collection.
FreshData(callback_data, threshold, raw_data_only) ==
    CASE callback_data = "streak" ->
           {generate_streak_message_from_db(loaded, now) :
               loaded \in load_all_historical(fas_historical)}
      [] callback_data = "streak_daily" ->
           {Returned(generate_streak_daily_message_from_db(today_records, now)) :
               today_records \in AscendingByOrder(TodayDocs)}
      [] callback_data = "history" ->
           {Returned(generate_history_message_from_db(
                         fetched, Cardinality(fas_historical), raw_data_only, now)) :
               fetched \in history_query(fas_historical)}
      [] callback_data = "info" ->
           {Returned(generate_info_message_from_db(fas_historical, threshold, now))}
      [] callback_data = "stats" ->
           {Returned(generate_stats_message_from_db(loaded, threshold, now)) :
               loaded \in load_all_historical(fas_historical)}
      [] OTHER -> {Returned(<<"Comando non riconosciuto">>)}

\* The outcomes of the per-team renderers.
TeamData(kind, threshold) ==
    CASE kind = "streak" ->
           {streak_by_team_text(loaded, now) :
               loaded \in load_all_historical(fas_historical)}
      [] kind = "streak_daily" ->
           {Returned(generate_streak_daily_message_by_team(today_records, now)) :
               today_records \in AscendingByOrder(TodayDocs)}
      [] kind = "history" ->
           {generate_history_message_by_team(loaded, TRUE, now) :
               loaded \in load_all_historical(fas_historical)}
      [] kind = "info" ->
           {Returned(info_by_team_text(loaded, threshold, now)) :
               loaded \in load_all_historical(fas_historical)}

\* A request that reads, calls nobody and answers with body.
Answer(op, request, body) ==
    /\ response' = [op |-> op, request |-> request, body |-> body]
    /\ outbound' = <<>>
    /\ UNCHANGED <<telegram_state, fas_telegram_sync, fas_historical, now, tasks,
                   funvars>>

\* GET /historical/render-history, render-info, render-streak and
\* render-streak-daily; view is "serie" or "squadra".
render_history(view) ==
    \E outcome \in (IF view = "squadra"
                    THEN TeamData("history", telegram_state.threshold)
                    ELSE FreshData("history", telegram_state.threshold, TRUE)) :
        Answer("render_history", [view |-> view], TextBody(outcome))

render_info(view) ==
    \E outcome \in (IF view = "squadra"
                    THEN TeamData("info", telegram_state.threshold)
                    ELSE FreshData("info", telegram_state.threshold, FALSE)) :
        Answer("render_info", [view |-> view], TextBody(outcome))

render_streak(view) ==
    \E outcome \in (IF view = "squadra"
                    THEN TeamData("streak", telegram_state.threshold)
                    ELSE FreshData("streak", telegram_state.threshold, FALSE)) :
        Answer("render_streak", [view |-> view], TextBody(outcome))

render_streak_daily(view) ==
    \E outcome \in (IF view = "squadra"
                    THEN TeamData("streak_daily", telegram_state.threshold)
                    ELSE FreshData("streak_daily", telegram_state.threshold, FALSE)) :
        Answer("render_streak_daily", [view |-> view], TextBody(outcome))

\* GET /historical/streak-analysis
historical_streak_analysis ==
    \E outcome \in FreshData("streak", telegram_state.threshold, FALSE) :
        Answer("streak_analysis", [view |-> "serie"],
               IF outcome.raised THEN InternalServerError
               ELSE [analysis |-> outcome.text])

\* GET /telegram/status
telegram_status ==
    Answer("status", [view |-> "serie"],
           [configured |-> telegram_state.bot_token # None,
            synced_giornate |-> Len(telegram_state.history),
            total_historical |-> Cardinality(fas_historical),
            historical_days |-> Cardinality(DistinctDates(fas_historical)),
            threshold |-> telegram_state.threshold,
            last_sync |-> telegram_state.last_sync])

\* The projection {"_id": 0}.
Project(d) == [k \in DOMAIN d \ {"_id"} |-> d[k]]

\* .sort([("data_sisal", 1), ("giornata", 1)]): the listings MongoDB may return.
ListQuery(docs) ==
    {s \in Listings(docs) :
        \A i, k \in 1..Len(s) :
            i < k => ~ \/ TextLess(s[k].data_sisal, s[i].data_sisal)
                       \/ /\ s[k].data_sisal = s[i].data_sisal
                          /\ TextLess(s[k].giornata, s[i].giornata)}

\* The key of the sort in historical_list: (ds, g).
list_sort_key(r) == <<DateStr(r.data_sisal), RoundNumber(r)>>

RECURSIVE ListInsert(_, _)
ListInsert(sorted, r) ==
    IF sorted = <<>> THEN <<r>>
    ELSE IF LET a == list_sort_key(r)
                b == list_sort_key(Head(sorted))
            IN  TextLess(a[1], b[1]) \/ (a[1] = b[1] /\ a[2] < b[2])
    THEN <<r>> \o sorted
    ELSE <<Head(sorted)>> \o ListInsert(Tail(sorted), r)

RECURSIVE ListSortFrom(_, _, _)
ListSortFrom(sorted, recs, i) ==
    IF i > Len(recs) THEN sorted
    ELSE ListSortFrom(ListInsert(sorted, recs[i]), recs, i + 1)

\* GET /historical/list with the default page 1 and limit 50.
historical_list(date) ==
    LET docs == IF Truthy(date) THEN {d \in fas_historical : d.data_sisal = date}
                ELSE fas_historical
        total == Cardinality(docs)
    IN  \E listing \in ListQuery(docs) :
            Answer("list", [date |-> date],
                   [total |-> total, page |-> 1, limit |-> 50,
                    pages |-> (total + 50 - 1) \div 50,
                    records |-> ListSortFrom(<<>>,
                                   [k \in 1..Len(listing) |-> Project(listing[k])],
                                   1)])

\* The groups of the $group / $sort pipeline, by ascending date.
RECURSIVE DateGroups(_, _)
DateGroups(docs, dates) ==
    IF dates = {} THEN <<>>
    ELSE LET first == CHOOSE x \in dates : \A y \in dates : ~TextLess(y, x)
         IN  <<[date |-> first,
                giornate |-> Cardinality({d \in docs : d.data_sisal = first})]>>
                 \o DateGroups(docs, dates \ {first})

\* GET /historical/dates
historical_dates ==
    LET dates == DateGroups(fas_historical, DistinctDates(fas_historical))
    IN  Answer("dates", [view |-> "serie"],
               [total_dates |-> Len(dates), dates |-> dates])

(***************************************************************************)
(* The endpoints that call the messaging service.                          *)
(***************************************************************************)
Forbidden == <<"F", "o", "r", "b", "i", "d", "d", "e", "n", ":", " ", "b", "o", "t", " ", "w", "a", "s", " ", "b", "l", "o", "c", "k", "e", "d">>
ChatNotFound == <<"B", "a", "d", " ", "R", "e", "q", "u", "e", "s", "t", ":", " ", "c", "h", "a", "t", " ", "n", "o", "t", " ", "f", "o", "u", "n", "d">>
TooManyRequests == <<"T", "o", "o", " ", "M", "a", "n", "y", " ", "R", "e", "q", "u", "e", "s", "t", "s">>

OkReply == [ok |-> TRUE, message_id |-> 41]

ErrorReply(description) == [ok |-> FALSE, description |-> description]

\* What the service may answer to a call.
TelegramReplies ==
    {OkReply, ErrorReply(Forbidden), ErrorReply(ChatNotFound),
     ErrorReply(TooManyRequests)}

Call(method, bot_token, json, reply) ==
    [method |-> method, bot_token |-> bot_token, json |-> json, reply |-> reply]

MissingToken == [status |-> "error", message |-> "Bot token mancante"]
MissingTokenOrChat == [status |-> "error", message |-> "Bot token o Chat ID mancante"]

\* x or y for a request field and the stored value.
OrState(x, y) == IF Truthy(x) THEN x ELSE y

\* A request that answers with body after the calls in calls.
AnswerAfter(op, request, body, calls, scheduled) ==
    /\ response' = [op |-> op, request |-> request, body |-> body]
    /\ outbound' = calls
    /\ tasks' = tasks \cup scheduled
    /\ UNCHANGED <<telegram_state, fas_telegram_sync, fas_historical, now, funvars>>

\* POST /telegram/setup-webhook
setup_webhook(data) ==
    LET bot_token == OrState(GetText(data.bot_token, None), telegram_state.bot_token)
    IN  IF ~Truthy(bot_token)
        THEN AnswerAfter("setup_webhook", data, MissingToken, <<>>, {})
        ELSE \E reply \in TelegramReplies :
                AnswerAfter("setup_webhook", data, reply,
                            <<Call("setWebhook", bot_token,
                                   [allowed_updates |-> <<"callback_query">>],
                                   reply)>>, {})

\* POST /telegram/remove-webhook
remove_webhook(data) ==
    LET bot_token == OrState(GetText(data.bot_token, None), telegram_state.bot_token)
    IN  IF ~Truthy(bot_token)
        THEN AnswerAfter("remove_webhook", data, MissingToken, <<>>, {})
        ELSE \E reply \in TelegramReplies :
                AnswerAfter("remove_webhook", data, reply,
                            <<Call("deleteWebhook", bot_token, [none |-> TRUE],
                                   reply)>>, {})

MenuText == <<"<b>FAS MONITOR - MENU</b>\n", Rule, "\nSeleziona un'opzione:">>

\* build_callback_keyboard(): the callback_data of its four buttons.
build_callback_keyboard == << <<"streak", "streak_daily">>, <<"history", "info">> >>

\* A slip that asks for the token only.
send_menu_token_only(data) ==
    LET bot_token == OrState(GetText(data.bot_token, None), telegram_state.bot_token)
        chat_id == OrState(GetText(data.chat_id, None), telegram_state.chat_id)
    IN  IF ~Truthy(bot_token)
        THEN AnswerAfter("send_menu", data, MissingTokenOrChat, <<>>, {})
        ELSE \E reply \in TelegramReplies :
                AnswerAfter("send_menu", data, reply,
                            <<Call("sendMessage", bot_token,
                                   [chat_id |-> StrValue(chat_id), text |-> MenuText,
                                    reply_markup |-> build_callback_keyboard],
                                   reply)>>, {})

\* POST /telegram/send-menu
send_menu(data) ==
    LET bot_token == OrState(GetText(data.bot_token, None), telegram_state.bot_token)
        chat_id == OrState(GetText(data.chat_id, None), telegram_state.chat_id)
    IN  IF ~Truthy(bot_token) \/ ~Truthy(chat_id)
        THEN AnswerAfter("send_menu", data, MissingTokenOrChat, <<>>, {})
        ELSE \E reply \in TelegramReplies :
                AnswerAfter("send_menu", data, reply,
                            <<Call("sendMessage", bot_token,
                                   [chat_id |-> StrValue(chat_id), text |-> MenuText,
                                    reply_markup |-> build_callback_keyboard],
                                   reply)>>, {})

\* The three phrases that mean the user never started the bot.
NotStarted(error_desc) ==
    \/ Contains(Lower(error_desc), <<"b", "o", "t", " ", "c", "a", "n", "'", "t", " ", "i", "n", "i", "t", "i", "a", "t", "e">>)
    \/ Contains(Lower(error_desc), <<"c", "h", "a", "t", " ", "n", "o", "t", " ", "f", "o", "u", "n", "d">>)
    \/ Contains(Lower(error_desc), <<"f", "o", "r", "b", "i", "d", "d", "e", "n">>)

\* The text the webhook sends for a callback, given the report it generated.
WebhookText(user_tpl, use_raw_data, fresh_data, ts) ==
    IF use_raw_data
    THEN Replace(Replace(user_tpl, DataPlaceholder, fresh_data),
                 TimestampPlaceholder, ts)
    ELSE fresh_data

WebhookOk == [ok |-> TRUE]

\* POST /telegram/webhook
telegram_webhook(update) ==
    LET callback == update.callback_query
        bot_token == telegram_state.bot_token
    IN  IF callback = AbsentValue \/ ~Truthy(bot_token) \/ callback.from_id = AbsentValue
        THEN AnswerAfter("webhook", update, WebhookOk, <<>>, {})
        ELSE
        LET threshold == telegram_state.threshold
            user_tpl == DictGet(telegram_state.rendered_templates, callback.data, None)
            use_raw_data == Truthy(user_tpl) /\ Contains(user_tpl, DataPlaceholder)
        IN  \E outcome \in FreshData(callback.data, threshold, use_raw_data) :
              IF outcome.raised
              THEN AnswerAfter("webhook", update, InternalServerError, <<>>, {})
              ELSE
              LET text == WebhookText(user_tpl, use_raw_data, outcome.text,
                                      now_italy(now))
                  ack(reply) ==
                      Call("answerCallbackQuery", bot_token,
                           [callback_query_id |-> callback.id,
                            text |-> "Messaggio inviato in privato!"], reply)
                  send(reply) ==
                      Call("sendMessage", bot_token,
                           [chat_id |-> callback.from_id, text |-> text,
                            reply_markup |-> build_callback_keyboard], reply)
                  alert(reply) ==
                      Call("answerCallbackQuery", bot_token,
                           [callback_query_id |-> callback.id,
                            text |-> "Devi prima avviare il bot!",
                            show_alert |-> TRUE], reply)
                  prompt(reply) ==
                      Call("sendMessage", bot_token,
                           [chat_id |-> callback.chat_id,
                            text |-> <<"<b>">> \o callback.first_name
                                       \o <<"</b>, devi prima avviare il bot!">>],
                           reply)
              IN  \E send_result \in TelegramReplies :
                    IF ~send_result.ok /\ NotStarted(send_result.description)
                    THEN \E msg_result \in {OkReply, ErrorReply(TooManyRequests)} :
                            AnswerAfter("webhook", update, WebhookOk,
                                        <<ack(OkReply), send(send_result), alert(OkReply),
                                          prompt(msg_result)>>,
                                        IF msg_result.ok
                                        THEN {[bot_token |-> bot_token,
                                               chat_id |-> callback.chat_id,
                                               message_id |-> msg_result.message_id]}
                                        ELSE {})
                    ELSE AnswerAfter("webhook", update, WebhookOk,
                                     <<ack(OkReply), send(send_result)>>, {})

\* delete_message_after_delay, once its sleep is over: the call may fail, and
\* the failure is logged and dropped.
delete_message_after_delay(task) ==
    /\ task \in tasks
    /\ tasks' = tasks \ {task}
    /\ \E reply \in {OkReply, ErrorReply(TooManyRequests)} :
          outbound' = <<Call("deleteMessage", task.bot_token,
                             [chat_id |-> task.chat_id,
                              message_id |-> task.message_id], reply)>>
    /\ response' = [op |-> "delete_message_after_delay"]
    /\ UNCHANGED <<telegram_state, fas_telegram_sync, fas_historical, now, funvars>>

(***************************************************************************)
(* The requests of the model.  Four batch items: Item1 and Item2 describe  *)
(* the same (date, round, time) with different content and with the        *)
(* identifiers 1 and "1"; Item3 differs from Item1 in the time only;       *)
(* ItemBare has no field at all.                                           *)
(***************************************************************************)
Item1 ==
    [id |-> IntValue(1), dataRicerca |-> Date1, data |-> Date1,
     giornata |-> StrValue(<<"5">>), ora |-> T1000,
     matches |-> ListValue(<<Entry("NG", RomJuv)>>)]

Item2 ==
    [id |-> StrValue(<<"1">>), dataRicerca |-> Absent, data |-> Date1,
     giornata |-> IntValue(5), ora |-> T1000,
     matches |-> ListValue(<<Entry("G", RomJuv)>>)]

Item3 ==
    [id |-> IntValue(2), dataRicerca |-> Date1, data |-> Absent,
     giornata |-> StrValue(<<"5">>), ora |-> T1005,
     matches |-> ListValue(<<Entry("NG", RomJuv)>>)]

ItemBare ==
    [id |-> AbsentValue, dataRicerca |-> Absent, data |-> Absent,
     giornata |-> AbsentValue, ora |-> Absent, matches |-> AbsentValue]

Batches ==
    { <<>>, <<Item1>>, <<Item1, Item2>>, <<Item1, Item3>>, <<Item2, Item3>>,
      <<Item3, ItemBare>>, <<ItemBare, ItemBare>>, <<Item3, Item3>> }

DataTemplate == <<"{", "d", "a", "t", "a", "}">>
FullTemplate ==
    <<"{", "d", "a", "t", "a", "}", "|", "{", "t", "i", "m", "e", "s", "t", "a", "m", "p", "}", "|", "{", "x", "}">>
PlainTemplate == <<"n", "o">>

SyncSettings ==
    { [bot_token |-> <<"t", "1">>, chat_id |-> <<"c", "1">>,
       threshold |-> AbsentValue, rendered_templates |-> AbsentValue,
       total_local |-> AbsentValue],
      [bot_token |-> <<"t", "2">>, chat_id |-> <<"c", "2">>,
       threshold |-> IntValue(3),
       rendered_templates |->
           [t |-> "dict",
            v |-> [history |-> FullTemplate, streak |-> DataTemplate,
                   info |-> PlainTemplate, stats |-> FullTemplate]],
       total_local |-> IntValue(7)] }

SyncRequests ==
    {[bot_token |-> c.bot_token, chat_id |-> c.chat_id, threshold |-> c.threshold,
      rendered_templates |-> c.rendered_templates, total_local |-> c.total_local,
      history |-> b, is_incremental |-> inc] :
        c \in SyncSettings, b \in Batches, inc \in BOOLEAN}

Init ==
    /\ SysInit
    /\ records = <<>>
    /\ args = [op |-> "none"]
    /\ result = NoResult

Next ==
    \/ \E data \in SyncRequests : telegram_sync(data)
    \/ \E date \in {None, Date1} : historical_clear(date)
    \/ load_telegram_state

Spec == Init /\ [][Next]_vars

Views == {"serie", "squadra"}

\* The bodies of setup-webhook, remove-webhook and send-menu: no credentials,
\* empty ones, or a token and a chat id.
CredentialRequests ==
    { [bot_token |-> Absent, chat_id |-> Absent],
      [bot_token |-> <<>>, chat_id |-> <<"c", "9">>],
      [bot_token |-> <<"t", "9">>, chat_id |-> Absent] }

\* The updates of the webhook: one that is no callback, a callback of each kind
\* and of no kind, pressed by user 7 in channel 100, and one from nobody.
CallbackKinds == {"streak", "streak_daily", "history", "info", "stats", "other"}

CallbackQuery(data, from_id) ==
    [t |-> "dict", id |-> "cb1", data |-> data, from_id |-> from_id,
     first_name |-> <<"A", "n", "n">>, chat_id |-> IntValue(100)]

Updates ==
    {[callback_query |-> AbsentValue],
     [callback_query |-> CallbackQuery("info", AbsentValue)]}
      \cup {[callback_query |-> CallbackQuery(k, IntValue(7))] : k \in CallbackKinds}

\* Every endpoint, the process start and the scheduled deletions, with at most
\* MaxPushes pushes, each a full push of no record, of two records with
\* integer identifiers, of two with a string and an integer identifier, or of
\* a record and one without any field.
MaxPushes == 1

ServerPushes ==
    {data \in SyncRequests :
        /\ ~data.is_incremental
        /\ data.history \in { <<>>, <<Item1, Item3>>, <<Item2, Item3>>,
                               <<Item3, ItemBare>> }}

NextServer ==
    \/ \E data \in ServerPushes : now < MaxPushes /\ telegram_sync(data)
    \/ \E date \in {None, Date1} : historical_clear(date)
    \/ load_telegram_state
    \/ \E view \in Views : render_history(view)
    \/ \E view \in Views : render_info(view)
    \/ \E view \in Views : render_streak(view)
    \/ \E view \in Views : render_streak_daily(view)
    \/ historical_streak_analysis
    \/ telegram_status
    \/ \E date \in {None, Date1} : historical_list(date)
    \/ historical_dates
    \/ \E data \in CredentialRequests : setup_webhook(data)
    \/ \E data \in CredentialRequests : remove_webhook(data)
    \/ \E data \in CredentialRequests : send_menu(data)
    \/ \E update \in Updates : telegram_webhook(update)
    \/ \E task \in tasks : delete_message_after_delay(task)

SpecServer == Init /\ [][NextServer]_vars

\* The composite identity of a batch item and of a stored document.
Triple(item) == <<DataSisal(item), GiornataText(item), GetText(item.ora, <<>>)>>

DocTriple(d) == <<d.data_sisal, d.giornata, d.ora>>

BatchTriples(batch) == {Triple(batch[k]) : k \in 1..Len(batch)}

StoredTriples(coll) == {DocTriple(d) : d \in coll}

\* The last item of the batch that carries the same identity as item number k.
LatestWith(batch, k) ==
    CHOOSE j \in k..Len(batch) :
        /\ Triple(batch[j]) = Triple(batch[k])
        /\ \A i \in (j + 1)..Len(batch) : Triple(batch[i]) # Triple(batch[k])

\* Document d has the content of batch item number j (1-based) pushed at stamp.
HasContentOf(d, item, j, stamp) ==
    /\ d.matches = (IF item.matches = AbsentValue THEN <<>> ELSE item.matches.v)
    /\ d.data_estrazione = (IF item.data = Absent THEN <<>> ELSE item.data)
    /\ d.order = (IF item.id = AbsentValue THEN IntValue(j - 1) ELSE item.id)
    /\ d.synced_at = stamp

\* This step is a push: only telegram_sync advances the clock.
IsPush == now' = now + 1 /\ response'.op = "sync"

PushedBatch == response'.request.history

\* C8: pushing the same batch again (the same (date, round, time) keys), nothing
\* in between, reports zero new insertions and leaves the size of the permanent
\* collection unchanged; after any push the collection holds exactly one entry
\* per composite key, with the content of the latest item carrying the key, the
\* other entries being untouched; and no push reduces the number of entries.
C8_PushIdempotent ==
    [][IsPush =>
        /\ (response.op = "sync"
              /\ BatchTriples(response.request.history) = BatchTriples(PushedBatch))
             => /\ response'.body.new_records = 0
                /\ Cardinality(fas_historical') = Cardinality(fas_historical)
        /\ \A d1, d2 \in fas_historical' : DocTriple(d1) = DocTriple(d2) => d1 = d2
        /\ \A k \in 1..Len(PushedBatch) :
              \E d \in fas_historical' :
                  /\ DocTriple(d) = Triple(PushedBatch[k])
                  /\ HasContentOf(d, PushedBatch[LatestWith(PushedBatch, k)],
                                  LatestWith(PushedBatch, k), Stamp(now'))
        /\ \A d \in fas_historical :
              DocTriple(d) \notin BatchTriples(PushedBatch) => d \in fas_historical'
        /\ StoredTriples(fas_historical')
              = StoredTriples(fas_historical) \cup BatchTriples(PushedBatch)
        /\ Cardinality(fas_historical') >= Cardinality(fas_historical)
      ]_vars

\* The third push repeats the keys of the collection: Item1 and Item3 are
\* overwritten by Item2 and Item3, nothing is inserted, two entries remain.
C8_Witness ==
    /\ response.op = "sync"
    /\ response.request.history = <<Item2, Item3>>
    /\ now > 1
    /\ response.body.new_records = 0
    /\ response.body.total_historical = 2
    /\ \E d \in fas_historical :
          DocTriple(d) = Triple(Item1) /\ d.order = StrValue(<<"1">>)
                                       /\ d.synced_at = Stamp(now)

\* The identifier of an item as a string: "" when the item has none.
IdString(item) ==
    IF item.id = AbsentValue THEN <<>>
    ELSE IF item.id.t = "int" THEN IntText(item.id.v) ELSE item.id.v

\* The places of the batch whose identifier does not occur in the old history.
FreshPlaces(old, batch) ==
    {k \in 1..Len(batch) : \A j \in 1..Len(old) : IdString(batch[k]) # IdString(old[j])}

\* C9: after a push the in-memory history is exactly the batch in replace mode;
\* in incremental mode it is the old history, unchanged and in place, followed in
\* batch order by each batch item whose identifier (as a string) does not occur
\* in the old history, the other batch items being dropped.
C9_HistoryMerge ==
    [][IsPush =>
        LET old == telegram_state.history
            new == telegram_state'.history
            fresh == FreshPlaces(old, PushedBatch)
        IN  IF ~response'.request.is_incremental
            THEN new = PushedBatch
            ELSE /\ Len(new) = Len(old) + Cardinality(fresh)
                 /\ \A j \in 1..Len(old) : new[j] = old[j]
                 /\ \A k \in fresh :
                       new[Len(old) + Cardinality({i \in fresh : i <= k})]
                           = PushedBatch[k]
      ]_vars

\* An incremental push of Item2 and Item3 onto a history holding Item1: Item2,
\* whose identifier "1" equals that of Item1 as a string, is dropped, Item3 is
\* appended.
C9_Witness ==
    /\ response.op = "sync"
    /\ response.request.is_incremental
    /\ response.request.history = <<Item2, Item3>>
    /\ telegram_state.history = <<Item1, Item3>>

\* C10: a push returns synced_giornate = the number of items of its batch,
\* new_records = the number of distinct composite (date, round, time) keys of the
\* batch that were absent from the permanent collection before the push, and
\* total_historical = the size of the permanent collection after the push, which
\* is the size before plus new_records.
C10_PushCounts ==
    [][IsPush =>
        /\ response'.body.synced_giornate = Len(PushedBatch)
        /\ response'.body.new_records
              = Cardinality(BatchTriples(PushedBatch) \ StoredTriples(fas_historical))
        /\ response'.body.total_historical = Cardinality(fas_historical')
        /\ Cardinality(fas_historical')
              = Cardinality(fas_historical) + response'.body.new_records
      ]_vars

\* A batch of two items with the same key, pushed when another key is stored:
\* two items synced, one new record, two entries in total.
C10_Witness ==
    /\ response.op = "sync"
    /\ response.request.history = <<Item1, Item2>>
    /\ now > 1
    /\ response.body.synced_giornate = 2
    /\ response.body.new_records = 1
    /\ response.body.total_historical = 2

\* This step is a process start.
IsLoad == response'.op = "load"

\* The fields of SyncState, as a saved document holds them.
StateFields(doc) ==
    <<doc.bot_token, doc.chat_id, doc.threshold, doc.history, doc.last_sync,
      doc.rendered_templates>>

\* C11: after a push the mirror document holds the same bot token, chat id,
\* threshold, history, last_sync and templates as the in-memory state, and a
\* process start with that document restores exactly the state the process had;
\* a process start with no mirror document leaves the state at its initial
\* defaults.
C11_MirrorRoundTrip ==
    [][/\ IsPush =>
              /\ "current" \in DOMAIN fas_telegram_sync'
              /\ StateFields(fas_telegram_sync'["current"])
                    = StateFields(telegram_state')
       /\ IsLoad =>
              IF "current" \in DOMAIN fas_telegram_sync
              THEN telegram_state' = telegram_state
              ELSE telegram_state' = InitialState
      ]_vars

\* A process start after an incremental push with templates: the merged
\* history, the threshold 3 and the templates are back in memory.
C11_Witness ==
    /\ response.op = "load"
    /\ "current" \in DOMAIN fas_telegram_sync
    /\ telegram_state.history = <<Item1, Item3>>
    /\ telegram_state.threshold = 3
    /\ telegram_state.rendered_templates.streak = DataTemplate
    /\ telegram_state.last_sync = Stamp(2)

(***************************************************************************)
(* The reports on an empty collection.                                     *)
(***************************************************************************)
RenderOps == {"render_history", "render_info", "render_streak", "render_streak_daily"}

ReportKinds == {"streak", "streak_daily", "history", "info", "stats"}

\* text carries one of the "no data" messages of the renderers.
IsNoData(text) ==
    \E k \in 1..Len(text) : text[k] \in {NessunDato, NessunDatoRaw, NessunDatoOggi}

\* The last request was a callback of a report kind that sent its report.
SentReport ==
    /\ response.op = "webhook"
    /\ Len(outbound) >= 2
    /\ response.request.callback_query.data \in ReportKinds

\* The text of the report the last callback sent.
SentText == outbound[2].json.text

\* C12: while the permanent collection is empty, the text every render
\* endpoint returns (history in raw-data mode, info, streak and daily streak,
\* per position and per team) and the text every report callback sends
\* (stats, history, info, streak, daily streak) is a "no data" message: never
\* an error, an empty text or a report with a header only.
C12_EmptyCollectionNoData ==
    fas_historical = {} =>
        /\ response.op \in RenderOps =>
              /\ "text" \in DOMAIN response.body
              /\ IsNoData(response.body.text)
        /\ SentReport => IsNoData(SentText)

(***************************************************************************)
(* The text a callback sends when a template with {data} is stored.        *)
(***************************************************************************)
\* The first lines of the full reports.
ReportHeaders ==
    {"<b>STORICO FAS</b>\n\n", "<b>ANALISI STREAK NG</b>\n\n",
     "<b>STREAK TOTALE NG (>=5)</b>\n", "<b>STREAK GIORNALIERO</b>\n\n",
     "<b>STREAK GIORNALIERO (>=5)</b>\n", "<b>FAS MONITOR</b>\n",
     "<b>STATISTICHE FAS</b>\n\n", "<b>STATISTICHE FAS</b>\n"}

\* tpl read once from left to right, {data} giving data, {timestamp} giving
\* ts and everything else itself.
StartsAt(tpl, k, pat) ==
    k + Len(pat) - 1 <= Len(tpl) /\ SubSeq(tpl, k, k + Len(pat) - 1) = pat

RECURSIVE Splice(_, _, _, _)
Splice(tpl, data, ts, k) ==
    IF k > Len(tpl) THEN <<>>
    ELSE IF StartsAt(tpl, k, DataPlaceholder)
    THEN data \o Splice(tpl, data, ts, k + Len(DataPlaceholder))
    ELSE IF StartsAt(tpl, k, TimestampPlaceholder)
    THEN ts \o Splice(tpl, data, ts, k + Len(TimestampPlaceholder))
    ELSE <<tpl[k]>> \o Splice(tpl, data, ts, k + 1)

\* The template stored for the kind of the last callback.
StoredTemplate ==
    DictGet(telegram_state.rendered_templates,
            response.request.callback_query.data, None)

\* C13: when a callback of a report kind is served and the template stored
\* for the kind contains {data}, the text sent has no report header and no
\* generated-at line, no {data} or {timestamp} is left in it, and for the
\* history it is the template read once with {data} giving the raw rows of
\* the history and {timestamp} the current time, every other placeholder
\* staying as it is.
C13_TemplateSplice ==
    (SentReport /\ Truthy(StoredTemplate) /\ Contains(StoredTemplate, DataPlaceholder)) =>
        /\ \A k \in 1..Len(SentText) : SentText[k] \notin ReportHeaders \cup {ClockMark}
        /\ ~Contains(SentText, DataPlaceholder)
        /\ ~Contains(SentText, TimestampPlaceholder)
        /\ response.request.callback_query.data = "history" =>
              \E fetched \in history_query(fas_historical) :
                  SentText = Splice(StoredTemplate,
                                    generate_history_message_from_db(
                                        fetched, Cardinality(fas_historical), TRUE, now),
                                    now_italy(now), 1)

(***************************************************************************)
(* The history report on collections of up to MaxHistDocs documents.       *)
(* Document k of the first MaxHistDocs has the identifier k and the round  *)
(* MaxHistDocs + 1 - k, so that the later a document was inserted the      *)
(* earlier it is chronologically; one document has a string identifier and *)
(* one repeats the identifier 2.  The collections are those that leave out *)
(* at most two of the first MaxHistDocs documents, the same with the two   *)
(* others added, and the small ones.                                       *)
(***************************************************************************)
MaxHistDocs == 17

HistoryItem(id, round, outcome) ==
    [id |-> id, dataRicerca |-> Date1, data |-> Date1,
     giornata |-> StrValue(IntText(round)), ora |-> T1000,
     matches |-> ListValue(<<Entry(outcome, RomJuv)>>)]

HistoryDoc(k) ==
    HistoricalDoc(HistoryItem(IntValue(k), MaxHistDocs + 1 - k,
                              IF k % 2 = 0 THEN "G" ELSE "NG"), 0, Stamp(0))

TextIdDoc == HistoricalDoc(HistoryItem(StrValue(<<"1">>), 40, "G"), 0, Stamp(0))

SameIdDoc == HistoricalDoc(HistoryItem(IntValue(2), 41, "NG"), 0, Stamp(0))

HistoryCollections(largest) ==
    LET numbered == {HistoryDoc(k) : k \in 1..largest}
        large == {numbered \ out : out \in {o \in SUBSET numbered : Cardinality(o) <= 2}}
    IN  large \cup {c \cup {TextIdDoc, SameIdDoc} : c \in large}
            \cup SUBSET {HistoryDoc(1), HistoryDoc(2), TextIdDoc, SameIdDoc}

InitHistory ==
    /\ SysInit
    /\ records = <<>>
    /\ \E docs \in HistoryCollections(MaxHistDocs), raw_data_only \in BOOLEAN :
          args = [op |-> "history", docs |-> docs, raw_data_only |-> raw_data_only]
    /\ result = NoResult

\* generate_history_message_from_db on the collection args.docs: the records
\* it lists, in the order it lists them, and its text.
HistoryReport ==
    /\ args.op = "history"
    /\ result = NoResult
    /\ \E fetched \in history_query(args.docs) :
          result' = [op |-> "history", recs |-> Reverse(fetched),
                     text |-> generate_history_message_from_db(
                                  fetched, Cardinality(args.docs),
                                  args.raw_data_only, now)]
    /\ UNCHANGED <<sysvars, records, args>>

NextHistory == HistoryReport

SpecHistory == InitHistory /\ [][NextHistory]_vars

\* The number of rows in a text of the history report.
RowCount(text) == Cardinality({k \in 1..Len(text) : text[k] = "G<b>"})

\* C15: the history report lists min(15, size of the collection) distinct
\* records of the collection, no record left out has a greater insertion
\* order than a listed one, the listed records are in ascending insertion
\* order (numbers before strings, as the database orders them), and the text
\* has exactly their rows, in that order.
C15_LatestFifteen ==
    result.op = "history" =>
        LET docs == args.docs
            recs == result.recs
        IN  /\ Len(recs) = IF Cardinality(docs) < 15 THEN Cardinality(docs) ELSE 15
            /\ \A i \in 1..Len(recs) : recs[i] \in docs
            /\ \A i, k \in 1..Len(recs) : i # k => recs[i] # recs[k]
            /\ \A d \in docs : \A i \in 1..Len(recs) :
                  (\A k \in 1..Len(recs) : recs[k] # d) =>
                      ~BsonLess(recs[i].order, d.order)
            /\ \A i, k \in 1..Len(recs) :
                  i < k => ~BsonLess(recs[k].order, recs[i].order)
            /\ RowCount(result.text) = Len(recs)
            /\ recs # <<>> =>
                  IF args.raw_data_only
                  THEN result.text = Strip(HistoryRows(recs, 1))
                  ELSE Contains(result.text, HistoryRows(recs, 1))

\* C15 witness: of seventeen documents the report lists the fifteen inserted
\* last, which are the fifteen earliest rounds, the latest round first.
C15_Witness ==
    /\ result.op = "history"
    /\ args.docs = {HistoryDoc(k) : k \in 1..MaxHistDocs}
    /\ Len(result.recs) = 15
    /\ result.recs[1] = HistoryDoc(MaxHistDocs - 14)
    /\ result.recs[15] = HistoryDoc(MaxHistDocs)
    /\ RoundNumber(result.recs[1]) > RoundNumber(result.recs[15])
    /\ \E d \in args.docs :
          /\ \A k \in 1..15 : result.recs[k] # d
          /\ RoundNumber(d) > RoundNumber(result.recs[1])

(***************************************************************************)
(* What changes the state in memory.                                       *)
(***************************************************************************)
\* C16: a step that is neither a push nor a process start (a render endpoint,
\* a callback, status, historical list, dates or clear, setup-webhook,
\* remove-webhook, send-menu, a scheduled deletion) leaves bot token, chat id,
\* threshold, history, last_sync and templates in memory as they were.
C16_OnlySyncWrites ==
    [][(~IsPush /\ ~IsLoad) => StateFields(telegram_state') = StateFields(telegram_state)]_vars

\* C16 witness: a callback has sent its report, and a clear has emptied the
\* collection, while the state in memory is the one a push with a history
\* had set.
C16_Witness ==
    /\ telegram_state.bot_token = <<"t", "2">>
    /\ telegram_state.history # <<>>
    /\ telegram_state.last_sync # None
    /\ (SentReport \/ (response.op = "clear" /\ response.body.deleted > 0))

(***************************************************************************)
(* The requests that need credentials, when there are none.                *)
(***************************************************************************)
\* Neither the last request nor the state in memory has the credential.
Missing(field, stored) == ~Truthy(GetText(field, None)) /\ ~Truthy(stored)

\* The last request was one of setup-webhook, remove-webhook and send-menu
\* and lacked a credential it needs.
LacksCredentials ==
    \/ /\ response.op \in {"setup_webhook", "remove_webhook"}
       /\ Missing(response.request.bot_token, telegram_state.bot_token)
    \/ /\ response.op = "send_menu"
       /\ \/ Missing(response.request.bot_token, telegram_state.bot_token)
          \/ Missing(response.request.chat_id, telegram_state.chat_id)

\* The last request was a callback and no bot token is stored.
CallbackWithoutToken ==
    /\ response.op = "webhook"
    /\ response.request.callback_query # AbsentValue
    /\ ~Truthy(telegram_state.bot_token)

StructuredError ==
    "status" \in DOMAIN response.body /\ response.body.status = "error"

\* C17: setup-webhook, remove-webhook, send-menu and the callback, when no
\* credentials are available from the request or the state in memory, answer
\* with a structured error and call the messaging service not at all.
C17_MissingCredentials ==
    (LacksCredentials \/ CallbackWithoutToken) =>
        StructuredError /\ outbound = <<>>

\* C17 as amended: setup-webhook, remove-webhook and send-menu answer with a
\* structured error and make no call; the callback makes no call either and
\* answers {"ok": true}.
C17_MissingCredentialsAmended ==
    /\ LacksCredentials => StructuredError /\ outbound = <<>>
    /\ CallbackWithoutToken => response.body = WebhookOk /\ outbound = <<>>

\* C17 witness: a callback of the kind info arrived while no bot token was
\* stored.
C17_Witness ==
    /\ CallbackWithoutToken
    /\ response.request.callback_query.data = "info"
    /\ response.request.callback_query.from_id # AbsentValue
    /\ outbound = <<>>

(***************************************************************************)
(* The reports on whatever a push has stored.                              *)
(***************************************************************************)
\* C18: on the records a push has stored, whatever fields they lack and
\* whatever the types of their insertion orders, no report fails: every
\* render endpoint, the streak analysis and every callback gets its text and
\* none ends in an error raised by the load, the re-ordering or a scan.
C18_ReportsNeverRaise ==
    response.op \in RenderOps \cup {"streak_analysis", "webhook"} =>
        response.body # InternalServerError

(***************************************************************************)
(* The histogram of the per-position scans on record lists of up to        *)
(* MaxRunRecs records that all carry position 0.  A list is given by its   *)
(* steps: "NG" and "G" are a record of that outcome in the round after the *)
(* previous one (round 1 after round 22, the first record being round 20), *)
(* "jump" is an NG record two rounds after the previous one.               *)
(***************************************************************************)
MaxRunRecs == 10

RunSteps == {"NG", "G", "jump"}

NextRound(round, step) ==
    LET ahead == IF step = "jump" THEN 2 ELSE 1
    IN  ((round - 1 + ahead) % 22) + 1

RECURSIVE RunRecords(_, _, _)
RunRecords(steps, k, round) ==
    IF k > Len(steps) THEN <<>>
    ELSE <<[giornata |-> IntText(round),
            matches |-> <<[result |-> IF steps[k] = "G" THEN "G" ELSE "NG",
                           teams |-> NoTeams]>>]>>
            \o RunRecords(steps, k + 1,
                          IF k < Len(steps) THEN NextRound(round, steps[k + 1])
                          ELSE round)

RunLists(longest) == {RunRecords(steps, 1, 20) : steps \in SeqUpTo(RunSteps, longest)}

InitRuns ==
    /\ SysInit
    /\ records \in RunLists(MaxRunRecs)
    /\ args = [op |-> "none"]
    /\ result = NoResult

NextRuns == StreakTotal(0) \/ StreakDaily(0)

SpecRuns == InitRuns /\ [][NextRuns]_vars

\* obs[a..b] is a block that neither obs[a - 1] nor obs[b + 1] extends.
IsMaximalBlock(obs, a, b) ==
    /\ IsBlock(obs, a, b)
    /\ a = 1 \/ obs[a - 1].result # "NG"
             \/ ~Adjacent(obs[a - 1].giornata, obs[a].giornata)
    /\ b = Len(obs) \/ obs[b + 1].result # "NG"
                    \/ ~Adjacent(obs[b].giornata, obs[b + 1].giornata)

\* The number of maximal blocks of obs that have length len.
BlocksOfLength(obs, len) ==
    Cardinality({a \in 1..(Len(obs) - len + 1) : IsMaximalBlock(obs, a, a + len - 1)})

\* C19: when every record carries the position, the histogram of the
\* per-position scan (total and daily) has exactly the lengths L >= 5 for
\* which a maximal gap-free NG run of length L exists, each with the number of
\* those runs, a run still open at the last record counting once with its
\* length; no key is below 5.
C19_HistogramCountsRuns ==
    (IsStreakResult /\ EveryRecordHas(records, args.pos)) =>
        LET obs == Observed(records, args.pos)
            streak_counts == result.scan.streak_counts
        IN  /\ \A len \in DOMAIN streak_counts :
                  len >= 5 /\ streak_counts[len] = BlocksOfLength(obs, len)
            /\ \A len \in 5..Len(obs) :
                  BlocksOfLength(obs, len) > 0 => len \in DOMAIN streak_counts

\* C19 witness: five NG in rounds 20..2, then after a jump five NG in rounds
\* 4..8, the last one being the last record: two runs of five, one of them
\* still open.
C19_Witness ==
    /\ result.op = "streak"
    /\ records = RunRecords(<<"NG", "NG", "NG", "NG", "NG",
                              "jump", "NG", "NG", "NG", "NG">>, 1, 20)
    /\ DOMAIN result.scan.streak_counts = {5}
    /\ result.scan.streak_counts[5] = 2
    /\ result.scan.ongoing_streak

(***************************************************************************)
(* The sequence the total streak reports scan, on every collection of up   *)
(* to MaxScanDocs of six documents: identifiers 1, 2, 2 again, none (the   *)
(* batch index 0), the string "1" and 3, with dates, rounds and times that *)
(* put them in another chronological order.                                *)
(***************************************************************************)
MaxScanDocs == 4

ScanItem(id, date, round, ora) ==
    [id |-> id, dataRicerca |-> date, data |-> date,
     giornata |-> StrValue(IntText(round)), ora |-> ora,
     matches |-> ListValue(<<Entry("NG", RomJuv)>>)]

ScanDoc(id, date, round, ora) ==
    HistoricalDoc(ScanItem(id, date, round, ora), 0, Stamp(0))

FirstDoc == ScanDoc(IntValue(1), Date1, 5, T1000)
SecondDoc == ScanDoc(IntValue(2), Date1, 4, T1000)
SecondAgainDoc == ScanDoc(IntValue(2), Date2, 7, T1000)
UnnumberedDoc == ScanDoc(AbsentValue, Date1, 6, T1000)
TextDoc == ScanDoc(StrValue(<<"1">>), Date1, 3, T1000)
ThirdDoc == ScanDoc(IntValue(3), Date1, 5, T1005)

ScanCollections(largest) ==
    {c \in SUBSET {FirstDoc, SecondDoc, SecondAgainDoc, UnnumberedDoc, TextDoc,
                   ThirdDoc} : Cardinality(c) <= largest}

InitScan ==
    /\ SysInit
    /\ records = <<>>
    /\ \E docs \in ScanCollections(MaxScanDocs) : args = [op |-> "scan", docs |-> docs]
    /\ result = NoResult

\* all_records as the loops of generate_streak_message_from_db (op
\* "scan_positions") and of generate_streak_message_by_team (op "scan_teams")
\* find it: loaded, then re-sorted.
ScannedRecords(op) ==
    /\ args.op = "scan"
    /\ result = NoResult
    /\ \E loaded \in load_all_historical(args.docs) :
          result' = IF loaded # <<>> /\ OrderSortRaises(loaded)
                    THEN [op |-> op, raised |-> TRUE]
                    ELSE [op |-> op, raised |-> FALSE,
                          all_records |-> IF loaded = <<>> THEN <<>>
                                          ELSE order_sort(loaded)]
    /\ UNCHANGED <<sysvars, records, args>>

NextScan == \E op \in {"scan_positions", "scan_teams"} : ScannedRecords(op)

SpecScan == InitScan /\ [][NextScan]_vars

IsScanned == result.op \in {"scan_positions", "scan_teams"} /\ ~result.raised

\* s lists every document of docs once.
ListsAll(s, docs) ==
    /\ Len(s) = Cardinality(docs)
    /\ \A d \in docs : \E k \in 1..Len(s) : s[k] = d

\* C20: the sequence the total streak report scans, per position and per
\* team, is in ascending (normalized date, time, round number) order.
C20_ScansChronological ==
    IsScanned =>
        \A i, k \in 1..Len(result.all_records) :
            i < k => ~Before(result.all_records[k], result.all_records[i])

\* What the code does instead: the report fails when the insertion orders of
\* the collection are not all numbers or all strings; otherwise the sequence
\* it scans lists every document once in ascending insertion order, documents
\* of equal insertion order being in ascending (date, time, round) order.
ScansByInsertionOrder ==
    result.op \in {"scan_positions", "scan_teams"} =>
        /\ result.raised <=> \E d, e \in args.docs : d.order.t # e.order.t
        /\ ~result.raised =>
              LET s == result.all_records
              IN  /\ ListsAll(s, args.docs)
                  /\ \A i, k \in 1..Len(s) :
                        i < k =>
                            /\ ~ValueLess(s[k].order, s[i].order)
                            /\ s[k].order = s[i].order => ~Before(s[k], s[i])
(***************************************************************************)
(* The texts of the two per-position streak reports, on collections of up  *)
(* to MaxSectionRecs documents of one day, inserted in the order of their  *)
(* rounds.  A collection is given by its steps as in RunRecords, starting  *)
(* at round 1; position 0 has the outcome of the step, position 1 is       *)
(* always G and positions 2..5 are absent.  records is the collection in   *)
(* the order find() lists it.                                              *)
(***************************************************************************)
MaxSectionRecs == 6

SectionDoc(k, round, outcome) ==
    HistoricalDoc([id |-> IntValue(k), dataRicerca |-> Date1, data |-> Date1,
                   giornata |-> StrValue(IntText(round)), ora |-> T1000,
                   matches |-> ListValue(<<Entry(outcome, RomJuv),
                                           Entry("G", MilPsg)>>)],
                  0, Stamp(0))

RECURSIVE SectionDocs(_, _, _)
SectionDocs(steps, k, round) ==
    IF k > Len(steps) THEN <<>>
    ELSE <<SectionDoc(k, round, IF steps[k] = "G" THEN "G" ELSE "NG")>>
            \o SectionDocs(steps, k + 1,
                           IF k < Len(steps) THEN NextRound(round, steps[k + 1])
                           ELSE round)

SectionLists(longest) ==
    {SectionDocs(steps, 1, 1) : steps \in SeqUpTo(RunSteps, longest)}

InitSections ==
    /\ SysInit
    /\ records \in SectionLists(MaxSectionRecs)
    /\ args = [op |-> "none"]
    /\ result = NoResult

\* generate_streak_message_from_db on the collection records.
TotalSections ==
    /\ result = NoResult
    /\ args' = [op |-> "sections_total"]
    /\ result' = [op |-> "sections_total",
                  outcome |-> generate_streak_message_from_db(
                                  _sort_records(records), now)]
    /\ UNCHANGED <<sysvars, records>>

\* generate_streak_daily_message_from_db on the collection records.
DailySections ==
    /\ result = NoResult
    /\ args' = [op |-> "sections_daily"]
    /\ \E today_records \in
             AscendingByOrder({d \in {records[k] : k \in 1..Len(records)} :
                                   d.data_sisal = Today(now)}) :
          result' = [op |-> "sections_daily",
                     outcome |-> Returned(generate_streak_daily_message_from_db(
                                              today_records, now))]
    /\ UNCHANGED <<sysvars, records>>

NextSections == TotalSections \/ DailySections

SpecSections == InitSections /\ [][NextSections]_vars

\* What the reports scanned: the loaded list re-sorted by insertion order,
\* and today's records.
TotalScanned == order_sort(_sort_records(records))

HasRuns(st) == DOMAIN st.streak_counts # {} \/ st.max_streak >= MIN_STREAK

\* C21: the total streak report has a section for a position exactly when
\* that position's histogram is not empty or its max_streak is at least 5;
\* the daily streak report, when today has records, has a section with the
\* max_streak line for each of the 6 positions, also when max_streak is 0.
C21_SectionsShown ==
    /\ (result.op = "sections_total" /\ records # <<>> /\ ~result.outcome.raised) =>
          \A pos \in Positions :
              Contains(result.outcome.text, PositionTitle(pos))
                  <=> HasRuns(StreakScan(TotalScanned, pos))
    /\ (result.op = "sections_daily" /\ records # <<>>) =>
          \A pos \in Positions :
              \E closing \in {"</b> NG\n", "</b> NG\n\n"} :
                  Contains(result.outcome.text,
                           PositionTitle(pos) \o <<"   Max streak: <b>">>
                               \o IntText(DailyStreakScan(records, pos).max_streak)
                               \o <<closing>>)

\* C21 witness: five NG at position 0 and five G at position 1: the total
\* report has the section of position 1 and no other.
C21_Witness ==
    /\ result.op = "sections_total"
    /\ records = SectionDocs(<<"NG", "NG", "NG", "NG", "NG">>, 1, 1)
    /\ Contains(result.outcome.text, PositionTitle(0))
    /\ \A pos \in 1..5 : ~Contains(result.outcome.text, PositionTitle(pos))
(***************************************************************************)
(* Requests that overlap.  A handler runs from one await to the next       *)
(* without suspension, so each action below is one such stretch of         *)
(* telegram_sync, ended by the storage operation it awaits.  Two handlers  *)
(* each serve one push; a report reads the permanent collection once.      *)
(*                                                                         *)
(* Python lists are objects: a full push makes its own list (history) the  *)
(* in-memory history, and an incremental push appends to whatever list is  *)
(* the in-memory history then.  args.lists holds the contents of the list  *)
(* objects (the one of the process start and the one of each handler's     *)
(* full push, named 0 and by the handler) and args.list tells which of     *)
(* them telegram_state["history"] is.  overlaps records that a handler ran *)
(* while the other was in flight.                                          *)
(***************************************************************************)
Handlers == {1, 2}

OverlapPushes ==
    {data \in SyncRequests : data.history \in {<<Item1>>, <<Item1, Item3>>}}

Idle == [pc |-> "idle"]

InFlight == {"mirror", "upsert", "count"}

InitOverlap ==
    /\ SysInit
    /\ records = <<>>
    /\ args = [op |-> "overlap", list |-> 0,
               lists |-> [l \in {0} \cup Handlers |-> <<>>],
               handler |-> [h \in Handlers |-> Idle]]
    /\ result = NoResult

\* The list the loop `for idx, record in enumerate(history)` of handler h
\* walks: the request's list, which after a full push is also the in-memory
\* history and grows with every later incremental push.
LoopList(h) ==
    IF args.handler[h].data.is_incremental THEN args.handler[h].data.history
    ELSE args.lists[h]

\* telegram_sync from the request body to the call of
\* db.fas_telegram_sync.update_one: the in-memory mutation.
SyncMutate(h, data) ==
    /\ args.handler[h] = Idle
    /\ LET stamp == Stamp(now + 1)
           merged == MergeHistory(telegram_state.history, data.history,
                                  data.is_incremental)
           list == IF data.is_incremental THEN args.list ELSE h
           others == {g \in Handlers : args.handler[g].pc \in InFlight}
       IN  /\ telegram_state' =
                  [bot_token |-> BotToken(data), chat_id |-> ChatId(data),
                   history |-> merged, threshold |-> Threshold(data),
                   last_sync |-> stamp, rendered_templates |-> Templates(data)]
           /\ args' =
                  [args EXCEPT
                     !.list = list,
                     !.lists[list] = merged,
                     !.handler =
                        [g \in Handlers |->
                           IF g = h
                           THEN [pc |-> "mirror", data |-> data, stamp |-> stamp,
                                 list |-> list, sent |-> Len(merged), idx |-> 0,
                                 new_count |-> 0, overlaps |-> others # {}]
                           ELSE IF g \in others
                           THEN [args.handler[g] EXCEPT !.overlaps = TRUE]
                           ELSE args.handler[g]]]
    /\ now' = now + 1
    /\ UNCHANGED <<fas_telegram_sync, fas_historical, response, outbound, tasks,
                   records, result>>

\* The pc of handler h when it resumes with idx items of its loop behind it.
AfterItem(h, idx) == IF idx < Len(LoopList(h)) THEN "upsert" ELSE "count"

\* A slip that leaves the threshold out of the mirror write, so that the
\* document keeps the default.
MirrorSet_no_threshold(me, history) ==
    [bot_token |-> BotToken(me.data), chat_id |-> ChatId(me.data),
     history |-> history, threshold |-> 6,
     rendered_templates |-> Templates(me.data),
     last_sync |-> me.stamp, total_local |-> TotalLocal(me.data)]

\* The document of the mirror write of a handler, history being what the
\* driver encoded.
MirrorSet(me, history) ==
    [bot_token |-> BotToken(me.data), chat_id |-> ChatId(me.data),
     history |-> history, threshold |-> Threshold(me.data),
     rendered_templates |-> Templates(me.data),
     last_sync |-> me.stamp, total_local |-> TotalLocal(me.data)]

\* The mirror write of handler h is applied and the handler resumes.  The
\* driver encodes the $set document on a worker thread, some time after the
\* call: the history it writes is the list the call was given as that thread
\* finds it, with none, some or all of the items appended since.
MirrorWrite(h) ==
    /\ args.handler[h].pc = "mirror"
    /\ LET me == args.handler[h]
           live == args.lists[me.list]
       IN  \E n \in me.sent..Len(live) :
              fas_telegram_sync' =
                  DictPut(fas_telegram_sync, "current",
                          MirrorSet(me, SubSeq(live, 1, n)))
    /\ args' = [args EXCEPT !.handler[h].pc = AfterItem(h, 0)]
    /\ UNCHANGED <<telegram_state, fas_historical, now, response, outbound, tasks,
                   records, result>>

\* The mirror write of handler h raises: nothing catches it, the request
\* ends with status 500.
MirrorWriteFails(h) ==
    /\ args.handler[h].pc = "mirror"
    /\ args' = [args EXCEPT !.handler[h].pc = "failed"]
    /\ response' = [op |-> "sync", request |-> args.handler[h].data,
                    body |-> InternalServerError]
    /\ UNCHANGED <<telegram_state, fas_telegram_sync, fas_historical, now,
                   outbound, tasks, records, result>>

\* One db.fas_historical.update_one of handler h is applied and the handler
\* resumes.
UpsertWrite(h) ==
    /\ args.handler[h].pc = "upsert"
    /\ LET me == args.handler[h]
           up == UpsertOne(fas_historical,
                           HistoricalDoc(LoopList(h)[me.idx + 1], me.idx, me.stamp))
       IN  /\ fas_historical' = up.coll
           /\ args' = [args EXCEPT
                         !.handler[h].idx = me.idx + 1,
                         !.handler[h].new_count = CountUpsert(me.new_count,
                                                              up.upserted),
                         !.handler[h].pc = AfterItem(h, me.idx + 1)]
    /\ UNCHANGED <<telegram_state, fas_telegram_sync, now, response, outbound,
                   tasks, records, result>>

\* count_documents is answered and handler h returns.
SyncReturn(h) ==
    /\ args.handler[h].pc = "count"
    /\ args' = [args EXCEPT !.handler[h].pc = "done"]
    /\ response' =
           [op |-> "sync", request |-> args.handler[h].data,
            body |-> [status |-> "ok",
                      synced_giornate |-> Len(LoopList(h)),
                      new_records |-> args.handler[h].new_count,
                      total_historical |-> Cardinality(fas_historical),
                      incremental |-> args.handler[h].data.is_incremental]]
    /\ UNCHANGED <<telegram_state, fas_telegram_sync, fas_historical, now,
                   outbound, tasks, records, result>>

\* The find of _load_all_historical, for a report.
ReportRead ==
    /\ result = NoResult
    /\ result' = [op |-> "read", docs |-> fas_historical]
    /\ UNCHANGED <<sysvars, records, args>>

NextOverlap ==
    \/ \E h \in Handlers, data \in OverlapPushes : SyncMutate(h, data)
    \/ \E h \in Handlers : MirrorWrite(h)
    \/ \E h \in Handlers : MirrorWriteFails(h)
    \/ \E h \in Handlers : UpsertWrite(h)
    \/ \E h \in Handlers : SyncReturn(h)
    \/ ReportRead

SpecOverlap == InitOverlap /\ [][NextOverlap]_vars

\* The in-memory history is the list object args.list names.
ListIsHistory == args.op = "overlap" => telegram_state.history = args.lists[args.list]

\* How many items of a history have the identifier id (as a string).
IdCount(history, id) ==
    Cardinality({k \in 1..Len(history) : IdString(history[k]) = id})

\* The identifiers both batches carry.
SharedIds(batch, other) ==
    {IdString(batch[k]) : k \in 1..Len(batch)}
        \cap {IdString(other[k]) : k \in 1..Len(other)}

\* Handlers h and g serve overlapping incremental pushes and both have done
\* their in-memory step.
BothAppended(h, g) ==
    /\ h # g
    /\ args.handler[h].pc # "idle" /\ args.handler[g].pc # "idle"
    /\ args.handler[h].overlaps /\ args.handler[g].overlaps
    /\ args.handler[h].data.is_incremental /\ args.handler[g].data.is_incremental

\* C22: while an incremental push that carried a new identifier is in
\* flight, a second incremental push carrying the same identifier can run
\* its in-memory step so that the in-memory history has that identifier
\* twice.
C22_RaceAppendsTwice ==
    \A h, g \in Handlers :
        (/\ args.handler[h].pc \in InFlight
         /\ args.handler[h].data.is_incremental
         /\ args.handler[g] = Idle) =>
            \A id \in {IdString(args.handler[h].data.history[k]) :
                          k \in 1..Len(args.handler[h].data.history)} :
                ENABLED (\E data \in OverlapPushes :
                            /\ data.is_incremental
                            /\ id \in SharedIds(data.history,
                                                 args.handler[h].data.history)
                            /\ SyncMutate(g, data)
                            /\ IdCount(telegram_state'.history, id) = 2)

\* C22 as the code has it: the check and the append of an incremental push
\* run without suspension, so of two overlapping incremental pushes that
\* carry the same new identifier only the first appends the item, and the
\* in-memory history has that identifier once.
C22_NoDoubleAppend ==
    \A h, g \in Handlers :
        BothAppended(h, g) =>
            \A id \in SharedIds(args.handler[h].data.history,
                                 args.handler[g].data.history) :
                IdCount(telegram_state.history, id) = 1

\* C22 witness: two overlapping incremental pushes of Item1 have both done
\* their in-memory step and the history holds Item1 once.
C22_Witness ==
    /\ BothAppended(1, 2)
    /\ args.handler[1].data.history = <<Item1>>
    /\ args.handler[2].data.history = <<Item1>>
    /\ telegram_state.history = <<Item1>>

\* The mirror document holds what the in-memory state holds, or not.
Agree ==
    /\ "current" \in DOMAIN fas_telegram_sync
    /\ StateFields(fas_telegram_sync["current"]) = StateFields(telegram_state)

Diverged == ~Agree

\* Handler g ran its in-memory step after handler h did.
MutatedAfter(g, h) ==
    /\ args.handler[g].pc # "idle"
    /\ DecimalValue(args.handler[g].stamp) > DecimalValue(args.handler[h].stamp)

\* The mirror write of handler g was applied.
Mirrored(g) == args.handler[g].pc \in {"upsert", "count", "done"}

\* The in-memory state has the values of the push handler h served.
HoldsPushOf(h) ==
    LET me == args.handler[h]
    IN  /\ telegram_state.bot_token = BotToken(me.data)
        /\ telegram_state.chat_id = ChatId(me.data)
        /\ telegram_state.threshold = Threshold(me.data)
        /\ telegram_state.rendered_templates = Templates(me.data)
        /\ telegram_state.last_sync = me.stamp
        /\ Len(telegram_state.history) = me.sent
        /\ ~me.data.is_incremental => telegram_state.history = me.data.history

\* The mirror document is absent or the one an earlier push wrote.
MirrorOlderThan(h) ==
    "current" \in DOMAIN fas_telegram_sync =>
        \E g \in Handlers \ {h} :
            /\ Mirrored(g)
            /\ MutatedAfter(h, g)
            /\ fas_telegram_sync["current"].last_sync = args.handler[g].stamp

\* C23: when the mirror write of a push has failed, the in-memory state
\* keeps the values of that push and the mirror document the older ones, so
\* that the two differ; they differ as long as no later push has had its
\* mirror write applied, and agree once a later push has.
C23_FailedWriteDiverges ==
    \A h \in Handlers :
        args.handler[h].pc = "failed" =>
            /\ (\A g \in Handlers \ {h} : ~MutatedAfter(g, h)) =>
                  HoldsPushOf(h) /\ MirrorOlderThan(h) /\ Diverged
            /\ \A g \in Handlers \ {h} :
                  MutatedAfter(g, h) => (Mirrored(g) <=> Agree)

\* C23 witness: a push failed at its mirror write and the next push, begun
\* after that, has completed: the mirror document and the state agree.
C23_Witness ==
    /\ args.handler[1].pc = "failed"
    /\ args.handler[2].pc = "done"
    /\ MutatedAfter(2, 1)
    /\ ~args.handler[2].overlaps
    /\ args.handler[2].data.is_incremental
    /\ Agree

\* The permanent collection has a document under the (date, round, time) key
\* of the item.
HasKeyOf(item) ==
    \E d \in fas_historical : d._id = HistoricalDoc(item, 0, Stamp(0))._id

\* C24: when a push has ended, each item of its batch is in the permanent
\* collection under its (date, round, time) key, whether the mirror write of
\* the push was applied or failed.
C24_BatchReachesCollection ==
    \A h \in Handlers :
        args.handler[h].pc \in {"done", "failed"} =>
            \A k \in 1..Len(args.handler[h].data.history) :
                HasKeyOf(args.handler[h].data.history[k])

\* What the code does instead: a push whose mirror write was applied upserts
\* every item of its batch before it returns; one whose mirror write failed
\* upserts none.
UpsertsOnlyAfterMirror ==
    \A h \in Handlers :
        /\ args.handler[h].pc = "done" =>
              \A k \in 1..Len(args.handler[h].data.history) :
                  HasKeyOf(args.handler[h].data.history[k])
        /\ args.handler[h].pc = "failed" => args.handler[h].idx = 0

\* The fields of SyncState but last_sync.
PushFields(doc) ==
    <<doc.bot_token, doc.chat_id, doc.threshold, doc.rendered_templates,
      doc.history>>

\* C27: when two pushes overlapped and both have completed, the mirror
\* document and the in-memory state hold the same credentials, threshold,
\* templates and history, those of the push that mutated memory last.
C27_OverlapSamePush ==
    \A h, g \in Handlers :
        (/\ h # g
         /\ args.handler[h].pc = "done" /\ args.handler[g].pc = "done"
         /\ args.handler[h].overlaps /\ args.handler[g].overlaps
         /\ MutatedAfter(h, g)) =>
            /\ PushFields(fas_telegram_sync["current"]) = PushFields(telegram_state)
            /\ telegram_state.bot_token = BotToken(args.handler[h].data)
            /\ telegram_state.threshold = Threshold(args.handler[h].data)

\* The documents handler h has written or will write, as far as its batch
\* is known.
OwnDocs(h) ==
    {HistoricalDoc(LoopList(h)[k], k - 1, args.handler[h].stamp) :
        k \in 1..Len(LoopList(h))}

\* C28: a report's read of the permanent collection, made while one push is
\* under way or done and no other has begun, contains none or all of the
\* documents that push upserts.
C28_ReadsWholeBatches ==
    [][(result = NoResult /\ result'.op = "read") =>
          \A h, g \in Handlers :
              (args.handler[h].pc # "idle" /\ args.handler[g] = Idle) =>
                  \/ OwnDocs(h) \cap result'.docs = {}
                  \/ OwnDocs(h) \subseteq result'.docs
      ]_vars

\* The identifiers of a history, as the strings the code compares, differ
\* from one another.
DistinctIds(history) ==
    \A i, k \in 1..Len(history) :
        i # k => IdString(history[i]) # IdString(history[k])

\* C26: an incremental push onto a history with pairwise distinct
\* identifiers leaves the identifiers of the in-memory history pairwise
\* distinct.
C26_IdsStayDistinct ==
    [][(/\ IsPush
        /\ response'.request.is_incremental
        /\ DistinctIds(telegram_state.history)) =>
            DistinctIds(telegram_state'.history)
      ]_vars

\* What the code does instead: existing_ids is not extended while the batch
\* is walked, so the history stays free of repeated identifiers exactly when
\* the items of the batch that are new to it are.
BatchDuplicatesKept ==
    [][(/\ IsPush
        /\ response'.request.is_incremental
        /\ DistinctIds(telegram_state.history)) =>
            LET fresh == FreshPlaces(telegram_state.history, PushedBatch)
            IN  DistinctIds(telegram_state'.history)
                    <=> \A i, k \in fresh :
                            i # k => IdString(PushedBatch[i]) # IdString(PushedBatch[k])
      ]_vars

(***************************************************************************)
(* The calls of the webhook for one callback.                              *)
(***************************************************************************)
\* The last request was a callback pressed by a user while a bot token was
\* stored.
CallbackWithToken ==
    /\ response.op = "webhook"
    /\ response.request.callback_query # AbsentValue
    /\ response.request.callback_query.from_id # AbsentValue
    /\ Truthy(telegram_state.bot_token)

\* The places of outbound that hold a sendMessage to chat_id.
SendsTo(chat_id) ==
    {k \in 1..Len(outbound) :
        outbound[k].method = "sendMessage" /\ outbound[k].json.chat_id = chat_id}

\* The error descriptions that say the recipient never contacted the bot.
NotInitiated == {Forbidden, ChatNotFound}

\* The callback was acknowledged, then the private message sent once; the
\* alert and the channel prompt follow exactly when that message was refused
\* with a description of NotInitiated; the deletion of the prompt is pending
\* when the handler has returned.
CallbackCalls ==
    LET callback == response.request.callback_query
        refused == /\ ~outbound[2].reply.ok
                   /\ outbound[2].reply.description \in NotInitiated
    IN  /\ response.body = WebhookOk
        /\ Len(outbound) >= 2
        /\ outbound[1].method = "answerCallbackQuery"
        /\ "show_alert" \notin DOMAIN outbound[1].json
        /\ SendsTo(callback.from_id) = {2}
        /\ \A k \in 1..Len(outbound) : outbound[k].method # "deleteMessage"
        /\ IF refused
           THEN /\ Len(outbound) = 4
                /\ outbound[3].method = "answerCallbackQuery"
                /\ "show_alert" \in DOMAIN outbound[3].json
                /\ SendsTo(callback.chat_id) = {4}
                /\ outbound[4].reply.ok =>
                      \E task \in tasks :
                          /\ task.chat_id = callback.chat_id
                          /\ task.message_id = outbound[4].reply.message_id
           ELSE Len(outbound) = 2

\* C25: for a callback with a bot token stored, the handler acknowledges the
\* callback, then sends the private message exactly once and never again;
\* the alert and then the channel prompt are sent if and only if the message
\* was refused because the recipient never contacted the bot; and the handler
\* returns while the deletion of the prompt is still pending.
C25_CallbackOrder == CallbackWithToken => CallbackCalls

\* What the code does instead: the same, unless the report of the callback
\* raised, in which case the handler has called nobody.
CallbackCallsUnlessRaised ==
    CallbackWithToken =>
        IF response.body = InternalServerError THEN outbound = <<>>
        ELSE CallbackCalls
====
